---- MODULE Spec2Model ----
(***************************************************************************)
(* EmbyCache for Unraid: the cache residency reconciliation engine.        *)
(*                                                                         *)
(* Two generations of the tool live in the repository and both are         *)
(* modelled here:                                                          *)
(*   - the monolithic engine, embycache_run.py (class EmbyCache);          *)
(*   - the pipeline, scripts/embycache_collect.py followed by              *)
(*     scripts/embycache_mover.py.                                         *)
(*                                                                         *)
(* A path is a sequence of segments and a segment is a sequence of tokens: *)
(* "/mnt/user0/TV/A/e1.mkv" is                                             *)
(*   << <<"mnt">>, <<"user","0">>, <<"TV">>, <<"A">>, <<"e1",".mkv">> >>.  *)
(* A file name's last token is its suffix, the tokens before it its stem.  *)
(* A file size of 0 stands for "no such file"; every file has >= 1 byte.   *)
(***************************************************************************)
EXTENDS Integers, Sequences, FiniteSets, TLC

(***************************************************************************)
(* Path algebra (str.startswith, str.replace(old, new, 1), pathlib)        *)
(***************************************************************************)
StartsWith(p, pre) ==
    /\ Len(p) >= Len(pre)
    /\ SubSeq(p, 1, Len(pre)) = pre

Tail0(p, n) == SubSeq(p, n + 1, Len(p))

ReplacePrefix(p, old, new) == new \o Tail0(p, Len(old))

\* str.startswith on the texts of two paths: the last segment of pre may end inside a
\* segment of p ("/data" is a prefix of the text "/data2/x")
StrStartsWith(p, pre) ==
    \/ pre = << >>
    \/ /\ Len(p) >= Len(pre)
       /\ SubSeq(p, 1, Len(pre) - 1) = SubSeq(pre, 1, Len(pre) - 1)
       /\ StartsWith(p[Len(pre)], pre[Len(pre)])

\* p.replace(old, new, 1) for a p whose text starts with old: what follows old in its
\* last segment stays attached to the last segment of new
StrReplacePrefix(p, old, new) ==
    IF old = << >> \/ new = << >> THEN new \o Tail0(p, Len(old))
    ELSE SubSeq(new, 1, Len(new) - 1)
         \o << new[Len(new)] \o Tail0(p[Len(old)], Len(old[Len(old)])) >>
         \o Tail0(p, Len(old))

Parent(p) == SubSeq(p, 1, Len(p) - 1)

Basename(p) == p[Len(p)]

Stem(name) == SubSeq(name, 1, Len(name) - 1)

Suffix(name) == name[Len(name)]

Join(dir, name) == Append(dir, name)

(***************************************************************************)
(* Roots and configuration values                                          *)
(***************************************************************************)
USER_ROOT  == << <<"mnt">>, <<"user">> >>
CACHE_DIR  == << <<"mnt">>, <<"cache">> >>
ARRAY_ROOT == << <<"mnt">>, <<"user", "0">> >>
REAL_SOURCE == USER_ROOT
EMBY_SOURCE == << <<"data">> >>
EMBY_LIBS   == << <<"Serien">> >>
NAS_FOLDERS == << <<"TV">> >>
VALID_LIBRARIES == { <<"Serien">> }
LibIndex(lib) == { i \in 1..Len(EMBY_LIBS) : EMBY_LIBS[i] = lib /\ i <= Len(NAS_FOLDERS) }
InLibMap(lib) == LibIndex(lib) # {}
LIB_MAP(lib) == NAS_FOLDERS[CHOOSE i \in LibIndex(lib) : \A k \in LibIndex(lib) : k <= i]

\* the mover's prefixes (each ends in "/", so a prefix is whole segments)
CACHE_PREFIX == CACHE_DIR
ARRAY_PREFIX ==
    IF Len(REAL_SOURCE) > 2 /\ StartsWith(REAL_SOURCE, USER_ROOT)
    THEN ARRAY_ROOT \o Tail0(REAL_SOURCE, 2)
    ELSE ARRAY_ROOT
USER_PREFIX == USER_ROOT

(***************************************************************************)
(* The media library of the model: two episodes with the same file name in *)
(* two shows, and a metadata sidecar of the first.                         *)
(***************************************************************************)
E1A  == << <<"TV">>, <<"A">>, <<"e1", ".mkv">> >>
E1B  == << <<"TV">>, <<"B">>, <<"e1", ".mkv">> >>
NFOA == << <<"TV">>, <<"A">>, <<"e1", ".nfo">> >>

\* a video below /mnt/user/Kids, which is no monitored library, in a folder named TV
E1X  == << <<"Kids">>, <<"TV">>, <<"e1", ".mkv">> >>

Videos == {E1A, E1B}
Rels   == {E1A, E1B, NFOA, E1X}
DirRels == { Parent(r) : r \in Rels } \cup { Parent(Parent(r)) : r \in Rels }

VideoSize == 3
SidecarSize == 1
FullSize(r) == IF r \in Videos \cup {E1X} THEN VideoSize ELSE SidecarSize

(***************************************************************************)
(* State                                                                   *)
(***************************************************************************)
VARIABLES
    \* ---- the host: both storage tiers and the media server
    cache,          \* cache[r]: size of the file r on the fast tier, 0 = none
    array,          \* array[r]: size of the file r on the slow tier, 0 = none
    cacheDirs,      \* directories that exist below the cache root
    arrayDirs,      \* directories that exist below the array root
    cacheOther,     \* bytes on the fast tier that are not media of the model
    arrayOther,     \* bytes on the slow tier that are not media of the model
    playing,        \* files the media server reports as now playing
    tool,           \* which generation is deployed: "run" or "pipe"
    orch,           \* the orchestrator start.py: its position, --run, rc1, rc2, exit code
    probe,          \* one call of a path function: [fn, arg, out, done]
    \* ---- pipeline: files under datafiles/
    EXCLUDE_TXT,    \* embycache_mover_to_exclude.txt (the snapshot), a set of lines
    A2C_TXT,        \* embycache_array2cache.txt, a set of lines
    C2A_TXT,        \* embycache_cache2array.txt, a set of lines
    db,             \* emby_fileindex.db: [fresh, cache_names, array_names] or NoDb
    \* ---- pipeline: one mover process
    mpc,            \* position of the mover script
    mARGS_run,      \* the mover's --run
    SESSION_PATHS,  \* session_paths() as fetched when the mover starts
    array2cache_jobs,
    cache2array_jobs,
    jobs,           \* jobs[j]: progress of safe_move(j) in the pool that runs now
    \* ---- monolithic engine: files in the working directory
    exclude_file,   \* embycache_exclude.txt (the snapshot), a set of lines
    origin_file,    \* embycache_origin.json: cache path -> disk path
    \* ---- monolithic engine: one EmbyCache(run_mode).run()
    rpc,            \* position in run()
    run_mode,
    previous_exclude_list,
    origin_data,
    on_deck_data,   \* the sorted list of (prio, path, reason)
    idx,            \* index of the on_deck_data entry the loop of phase 1 is at
    sessions,       \* get_active_sessions()
    stat_free,      \* free bytes of the cache as read at the start (0: not readable)
    current_on_deck_paths,
    files_to_move_back,
    stats,
    rs,             \* the robust_move in progress: [src, dst, ret]
    \* ---- bookkeeping of the model
    runs,           \* how many times run() or the collect script was started
    loads           \* how many times the mover script was started

hostVars == <<cache, array, cacheDirs, arrayDirs, cacheOther, arrayOther, playing, tool,
              orch, probe>>
pipeFiles == <<EXCLUDE_TXT, A2C_TXT, C2A_TXT, db>>
moverVars == <<mpc, mARGS_run, SESSION_PATHS, array2cache_jobs, cache2array_jobs, jobs>>
pipeVars == <<pipeFiles, moverVars>>
runFiles == <<exclude_file, origin_file>>
runLocals == <<rpc, run_mode, previous_exclude_list, origin_data, on_deck_data, idx, sessions,
               stat_free, current_on_deck_paths, files_to_move_back, stats, rs>>
runVars == <<runFiles, runLocals>>
counters == <<runs, loads>>
vars == <<hostVars, pipeVars, runVars, counters>>

(***************************************************************************)
(* The file system: os.path.getsize / exists / isfile, shutil.disk_usage   *)
(* /mnt/user is Unraid's user share: the union view of cache and array.    *)
(***************************************************************************)
CacheTotal == 10
ArrayTotal == 10

RECURSIVE SumSizes(_, _)
SumSizes(f, S) ==
    IF S = {} THEN 0
    ELSE LET r == CHOOSE x \in S : TRUE IN f[r] + SumSizes(f, S \ {r})

CacheFree(c, other) == CacheTotal - other - SumSizes(c, Rels)
ArrayFree(a, other) == ArrayTotal - other - SumSizes(a, Rels)

OnCache(p) == StartsWith(p, CACHE_DIR) /\ Tail0(p, Len(CACHE_DIR)) \in Rels
OnArray(p) == StartsWith(p, ARRAY_ROOT) /\ Tail0(p, Len(ARRAY_ROOT)) \in Rels
OnUser(p)  == StartsWith(p, USER_ROOT) /\ Tail0(p, Len(USER_ROOT)) \in Rels

RelOf(p) ==
    IF OnCache(p) THEN Tail0(p, Len(CACHE_DIR))
    ELSE IF OnArray(p) THEN Tail0(p, Len(ARRAY_ROOT))
    ELSE Tail0(p, Len(USER_ROOT))

\* size of the file at path p in the file system (c, a); 0 when there is none
SizeAt(c, a, p) ==
    IF OnCache(p) THEN c[RelOf(p)]
    ELSE IF OnArray(p) THEN a[RelOf(p)]
    ELSE IF OnUser(p) THEN (IF c[RelOf(p)] > 0 THEN c[RelOf(p)] ELSE a[RelOf(p)])
    ELSE 0

IsFile(c, a, p) == SizeAt(c, a, p) > 0

\* the tier a path is stored on: a user-share path resolves to the copy it shows
PhysTier(c, a, p) ==
    IF OnCache(p) THEN "cache"
    ELSE IF OnArray(p) THEN "array"
    ELSE IF OnUser(p) THEN (IF c[RelOf(p)] > 0 THEN "cache" ELSE "array")
    ELSE "none"

\* two paths that name the same stored file
SameFile(c, a, p, q) ==
    /\ PhysTier(c, a, p) # "none"
    /\ PhysTier(c, a, p) = PhysTier(c, a, q)
    /\ RelOf(p) = RelOf(q)

\* the file system after the file at p got size n (0: after it was removed)
CacheAfterPut(c, a, p, n) ==
    IF PhysTier(c, a, p) = "cache" THEN [c EXCEPT ![RelOf(p)] = n] ELSE c
ArrayAfterPut(c, a, p, n) ==
    IF PhysTier(c, a, p) = "array" THEN [a EXCEPT ![RelOf(p)] = n] ELSE a

\* free bytes of the file system that holds directory d (free_space)
free_space(c, a, co, ao, d) ==
    IF StartsWith(d, CACHE_DIR) THEN CacheFree(c, co)
    ELSE IF StartsWith(d, ARRAY_ROOT) \/ StartsWith(d, USER_ROOT) THEN ArrayFree(a, ao)
    ELSE 0

\* os.makedirs(d, exist_ok=True): d and its ancestors below the tier root
Ancestors(rel) == { SubSeq(rel, 1, n) : n \in 1..Len(rel) }
DirsAfterMkdir(dirs, root, d) ==
    IF StartsWith(d, root) /\ Tail0(d, Len(root)) \in DirRels
    THEN dirs \cup Ancestors(Tail0(d, Len(root)))
    ELSE dirs

(***************************************************************************)
(* The media server: a session reports the container path of its file      *)
(***************************************************************************)
ContainerPath(r) ==
    LET K == { k \in 1..Len(NAS_FOLDERS) : NAS_FOLDERS[k] = r[1] /\ k <= Len(EMBY_LIBS) }
        lib == IF K = {} THEN r[1] ELSE EMBY_LIBS[CHOOSE k \in K : \A o \in K : k <= o]
    IN EMBY_SOURCE \o << lib >> \o Tail0(r, 1)

(***************************************************************************)
(* scripts/embycache_mover.py                                              *)
(***************************************************************************)
MAX_CACHE == 2
MAX_ARRAY == 2

\* how many starts of each script the model follows from its initial state, which
\* is itself the state some earlier runs have left
MaxRuns == 1
MaxLoads == 1

NoRel == << >>

\* the part of p after the first NAS folder that occurs in it as "/nas/"
NasHits(p, nas) == { i \in 1..(Len(p) - 1) : p[i] = nas }
NasWithHit(p) == { k \in 1..Len(NAS_FOLDERS) : NasHits(p, NAS_FOLDERS[k]) # {} }
RelAfterNas(p) ==
    IF NasWithHit(p) = {} THEN NoRel
    ELSE LET k == CHOOSE x \in NasWithHit(p) : \A y \in NasWithHit(p) : x <= y
             H == NasHits(p, NAS_FOLDERS[k])
             i == CHOOSE x \in H : \A y \in H : x <= y
         IN Tail0(p, i)

\* str(host).replace(CACHE_PREFIX, USER_PREFIX, 1).replace("/mnt/user0/", USER_PREFIX, 1)
HostUser(host) ==
    LET h1 == IF StartsWith(host, CACHE_PREFIX)
              THEN ReplacePrefix(host, CACHE_PREFIX, USER_PREFIX) ELSE host
    IN IF StartsWith(h1, ARRAY_ROOT) THEN ReplacePrefix(h1, ARRAY_ROOT, USER_PREFIX) ELSE h1

\* the playing path mapped out of the container: /data/<lib>/.. -> REAL_SOURCE/<nas>/..
PlayingOnHost(playing_path) ==
    IF /\ StartsWith(playing_path, EMBY_SOURCE)
       /\ Len(playing_path) >= Len(EMBY_SOURCE) + 1
       /\ InLibMap(playing_path[Len(EMBY_SOURCE) + 1])
    THEN REAL_SOURCE \o << LIB_MAP(playing_path[Len(EMBY_SOURCE) + 1]) >>
             \o Tail0(playing_path, Len(EMBY_SOURCE) + 1)
    ELSE playing_path

\* a comparison that never finds the playing file
is_same_mediaNever(src_host, playing_path) == FALSE

is_same_media(src_host, playing_path) ==
    IF Basename(src_host) # Basename(playing_path) THEN FALSE
    ELSE LET rel_host == RelAfterNas(HostUser(src_host))
             rel_play == RelAfterNas(PlayingOnHost(playing_path))
         IN IF rel_host = NoRel THEN TRUE
            ELSE IF rel_play = NoRel THEN TRUE
            ELSE rel_play = rel_host

is_playing(src_host, paths) ==
    \E p \in paths : is_same_media(src_host, p)

\* session_paths(): the container paths of what the sessions play now
session_paths(play) == { ContainerPath(r) : r \in play }

\* the mappers return (src, dst_dir)
map_array_to_cache(p) ==
    LET dst == IF StartsWith(p, ARRAY_PREFIX) THEN ReplacePrefix(p, ARRAY_PREFIX, CACHE_PREFIX)
               ELSE IF StartsWith(p, USER_PREFIX) THEN ReplacePrefix(p, USER_PREFIX, CACHE_PREFIX)
               ELSE p
    IN [src |-> p, dst |-> Parent(dst)]

map_cache_to_array(p) ==
    LET src == IF StartsWith(p, ARRAY_PREFIX) THEN ReplacePrefix(p, ARRAY_PREFIX, CACHE_PREFIX)
               ELSE IF StartsWith(p, USER_PREFIX) THEN ReplacePrefix(p, USER_PREFIX, CACHE_PREFIX)
               ELSE p
    IN [src |-> src, dst |-> Parent(p)]

\* the destination file of a job: os.path.join(dst_dir, os.path.basename(src))
DstFile(j) == Join(j.dst, Basename(j.src))

\* the job lists built when the script is loaded
BuildA2C(c, a, lines, sess) ==
    { map_array_to_cache(p) : p \in
        { q \in lines : /\ IsFile(c, a, map_array_to_cache(q).src)
                        /\ ~is_playing(map_array_to_cache(q).src, sess) } }

BuildC2A(c, a, lines, sess) ==
    { map_cache_to_array(p) : p \in
        { q \in lines : /\ IsFile(c, a, map_cache_to_array(q).src)
                        /\ ~is_playing(map_cache_to_array(q).src, sess) } }

NoDb == [fresh |-> FALSE, cache_names |-> {}, array_names |-> {}]
NoJobs == [j \in {} |-> 0]
Queued == [pc |-> "queued", size |-> 0, ret |-> 0, why |-> "-"]
Running == {"copying", "verifying", "committing"}
Finished == {"done", "failed"}
InProgress == { j \in DOMAIN jobs : jobs[j].pc \in Running }
PoolUnbounded == Cardinality(DOMAIN jobs) + 1

PoolLimit == IF mpc = "a2c" THEN MAX_CACHE ELSE MAX_ARRAY

\* what one run of the rsync subprocess can leave behind: its exit code and the
\* size of the destination file afterwards (old: nothing was written)
RsyncOutcomes(size, old, free) ==
    { o \in [ret : {0, 1}, n : {old, size - 1, size}] :
        /\ o.n >= 0
        /\ o.n - old <= free
        /\ (o.ret = 1 => o.n # size) }

\* Loading the script: session_paths(), read_list and the two job lists.  A failed
\* session request leaves SESSION_PATHS empty, which is the load with nothing playing.
MoverLoad(run) ==
    /\ tool = "pipe"
    /\ mpc = "idle"
    /\ loads < MaxLoads
    /\ loads' = loads + 1
    /\ mARGS_run' = run
    /\ SESSION_PATHS' = session_paths(playing)
    /\ array2cache_jobs' = BuildA2C(cache, array, A2C_TXT, SESSION_PATHS')
    /\ cache2array_jobs' = BuildC2A(cache, array, C2A_TXT, SESSION_PATHS')
    /\ mpc' = "planned"
    /\ jobs' = NoJobs
    /\ UNCHANGED <<hostVars, pipeFiles, runVars, runs>>

\* what the variables of a script hold while the script does not run
MoverAtRest ==
    /\ mpc' = "idle"
    /\ mARGS_run' = FALSE
    /\ SESSION_PATHS' = {}
    /\ array2cache_jobs' = {}
    /\ cache2array_jobs' = {}
    /\ jobs' = NoJobs

\* The head of the mover after the job lists: without --run the script exits; with
\* --run it tries to unlink the index file (an exception is logged and the script goes
\* on) and starts run_jobs(array2cache_jobs, MAX_CACHE)
MoverBeginWith(unlinked) ==
    /\ mpc = "planned"
    /\ IF mARGS_run
       THEN /\ db' = IF unlinked THEN NoDb ELSE db
            /\ mpc' = "a2c"
            /\ jobs' = [j \in array2cache_jobs |-> Queued]
            /\ UNCHANGED <<mARGS_run, SESSION_PATHS, array2cache_jobs, cache2array_jobs>>
       ELSE /\ db' = db
            /\ MoverAtRest
    /\ UNCHANGED <<counters, hostVars, EXCLUDE_TXT, A2C_TXT, C2A_TXT, runVars>>

\* a mover without the dry-run exit
MoverBeginNoExit ==
    /\ mpc = "planned"
    /\ db' = NoDb
    /\ mpc' = "a2c"
    /\ jobs' = [j \in array2cache_jobs |-> Queued]
    /\ UNCHANGED <<mARGS_run, SESSION_PATHS, array2cache_jobs, cache2array_jobs>>
    /\ UNCHANGED <<counters, hostVars, EXCLUDE_TXT, A2C_TXT, C2A_TXT, runVars>>

\* the planned totals are logged; without --run the script exits here, with --run the
\* index file is removed and run_jobs(array2cache_jobs, MAX_CACHE) starts
MoverBeginBothPools ==
    /\ mpc = "planned"
    /\ IF mARGS_run
       THEN /\ db' = NoDb
            /\ mpc' = "a2c"
            /\ jobs' = [j \in array2cache_jobs \cup cache2array_jobs |-> Queued]
            /\ UNCHANGED <<mARGS_run, SESSION_PATHS, array2cache_jobs, cache2array_jobs>>
       ELSE /\ db' = db
            /\ MoverAtRest
    /\ UNCHANGED <<counters, hostVars, EXCLUDE_TXT, A2C_TXT, C2A_TXT, runVars>>

\* the head of the mover when the index file can be unlinked
MoverBegin == MoverBeginWith(TRUE)

\* safe_move with the bytes of the copies in progress taken off the free space
SafeMoveStartReserving(j) ==
    /\ mpc \in {"a2c", "c2a"}
    /\ j \in DOMAIN jobs
    /\ jobs[j].pc = "queued"
    /\ Cardinality(InProgress) < PoolLimit
    /\ LET size == SizeAt(cache, array, j.src)
           RECURSIVE Held(_)
           Held(S) == IF S = {} THEN 0
                      ELSE LET k == CHOOSE x \in S : TRUE IN jobs[k].size + Held(S \ {k})
           free == free_space(cache, array, cacheOther, arrayOther, j.dst) - Held(InProgress)
       IN IF size = 0
          THEN /\ jobs' = [jobs EXCEPT ![j] = [@ EXCEPT !.pc = "failed", !.why = "error"]]
               /\ UNCHANGED <<cacheDirs, arrayDirs>>
          ELSE IF free < size
          THEN /\ jobs' = [jobs EXCEPT ![j] = [@ EXCEPT !.pc = "failed", !.size = size,
                                                       !.why = "nospace"]]
               /\ UNCHANGED <<cacheDirs, arrayDirs>>
          ELSE /\ jobs' = [jobs EXCEPT ![j] = [@ EXCEPT !.pc = "copying", !.size = size]]
               /\ cacheDirs' = DirsAfterMkdir(cacheDirs, CACHE_DIR, j.dst)
               /\ arrayDirs' = DirsAfterMkdir(arrayDirs, ARRAY_ROOT, j.dst)
    /\ UNCHANGED <<counters, cache, array, cacheOther, arrayOther, playing, tool, orch, probe, pipeFiles,
                   runVars, mpc, mARGS_run, SESSION_PATHS, array2cache_jobs, cache2array_jobs>>

\* safe_move up to the start of rsync: getsize, the free-space check, makedirs
SafeMoveStart(j) ==
    /\ mpc \in {"a2c", "c2a"}
    /\ j \in DOMAIN jobs
    /\ jobs[j].pc = "queued"
    /\ Cardinality(InProgress) < PoolLimit
    /\ LET size == SizeAt(cache, array, j.src)
           free == free_space(cache, array, cacheOther, arrayOther, j.dst)
       IN IF size = 0
          THEN /\ jobs' = [jobs EXCEPT ![j] = [@ EXCEPT !.pc = "failed", !.why = "error"]]
               /\ UNCHANGED <<cacheDirs, arrayDirs>>
          ELSE IF free < size
          THEN /\ jobs' = [jobs EXCEPT ![j] = [@ EXCEPT !.pc = "failed", !.size = size,
                                                       !.why = "nospace"]]
               /\ UNCHANGED <<cacheDirs, arrayDirs>>
          ELSE /\ jobs' = [jobs EXCEPT ![j] = [@ EXCEPT !.pc = "copying", !.size = size]]
               /\ cacheDirs' = DirsAfterMkdir(cacheDirs, CACHE_DIR, j.dst)
               /\ arrayDirs' = DirsAfterMkdir(arrayDirs, ARRAY_ROOT, j.dst)
    /\ UNCHANGED <<counters, cache, array, cacheOther, arrayOther, playing, tool, orch, probe, pipeFiles, runVars,
                   mpc, mARGS_run, SESSION_PATHS, array2cache_jobs, cache2array_jobs>>

\* the rsync subprocess of safe_move exits
SafeMoveRsync(j) ==
    /\ j \in DOMAIN jobs
    /\ jobs[j].pc = "copying"
    /\ LET old == SizeAt(cache, array, DstFile(j))
           free == free_space(cache, array, cacheOther, arrayOther, j.dst)
           same == SameFile(cache, array, j.src, DstFile(j))
       IN \E o \in RsyncOutcomes(jobs[j].size, old, free) :
            /\ same => o.n = old
            /\ SizeAt(cache, array, j.src) = 0 => (o.ret = 1 /\ o.n = old)
            /\ cache' = CacheAfterPut(cache, array, DstFile(j), o.n)
            /\ array' = ArrayAfterPut(cache, array, DstFile(j), o.n)
            /\ jobs' = [jobs EXCEPT ![j] =
                          IF o.ret # 0
                          THEN [@ EXCEPT !.pc = "failed", !.ret = o.ret, !.why = "rsync"]
                          ELSE [@ EXCEPT !.pc = "verifying", !.ret = o.ret]]
    /\ UNCHANGED <<counters, cacheDirs, arrayDirs, cacheOther, arrayOther, playing, tool, orch, probe, pipeFiles,
                   runVars, mpc, mARGS_run, SESSION_PATHS, array2cache_jobs, cache2array_jobs>>

\* a check that only looks for the destination file
CopyVerifiedAnySize(c, a, j, size) == IsFile(c, a, DstFile(j))

\* the check of the copy: the destination is a file of the source's size
CopyVerified(c, a, j, size) ==
    /\ IsFile(c, a, DstFile(j))
    /\ SizeAt(c, a, DstFile(j)) = size

SafeMoveVerify(j) ==
    /\ j \in DOMAIN jobs
    /\ jobs[j].pc = "verifying"
    /\ jobs' = [jobs EXCEPT ![j] =
                  IF CopyVerified(cache, array, j, jobs[j].size)
                  THEN [@ EXCEPT !.pc = "committing"]
                  ELSE [@ EXCEPT !.pc = "failed", !.why = "verify"]]
    /\ UNCHANGED <<counters, hostVars, pipeFiles, runVars,
                   mpc, mARGS_run, SESSION_PATHS, array2cache_jobs, cache2array_jobs>>

\* os.remove(src), which may fail
SafeMoveRemove(j) ==
    /\ j \in DOMAIN jobs
    /\ jobs[j].pc = "committing"
    /\ \E ok \in BOOLEAN :
         IF ok
         THEN /\ cache' = CacheAfterPut(cache, array, j.src, 0)
              /\ array' = ArrayAfterPut(cache, array, j.src, 0)
              /\ jobs' = [jobs EXCEPT ![j] = [@ EXCEPT !.pc = "done"]]
         ELSE /\ UNCHANGED <<cache, array>>
              /\ jobs' = [jobs EXCEPT ![j] = [@ EXCEPT !.pc = "failed", !.why = "delete"]]
    /\ UNCHANGED <<counters, cacheDirs, arrayDirs, cacheOther, arrayOther, playing, tool, orch, probe, pipeFiles,
                   runVars, mpc, mARGS_run, SESSION_PATHS, array2cache_jobs, cache2array_jobs>>

\* what run_jobs returns for a pool whose jobs have ended: len(jobs) and the sum of the
\* results of safe_move, which is the size of a completed move and 0 otherwise
RECURSIVE ResultSum(_, _)
ResultSum(js, S) ==
    IF S = {} THEN 0
    ELSE LET j == CHOOSE x \in S : TRUE
         IN (IF js[j].pc = "done" THEN js[j].size ELSE 0) + ResultSum(js, S \ {j})
run_jobs(js) == [cnt |-> Cardinality(DOMAIN js), bytes |-> ResultSum(js, DOMAIN js)]

\* run_jobs(array2cache_jobs, MAX_CACHE) returned; run_jobs(cache2array_jobs, MAX_ARRAY)
MoverNextPool ==
    /\ mpc = "a2c"
    /\ \A j \in DOMAIN jobs : jobs[j].pc \in Finished
    /\ mpc' = "c2a"
    /\ jobs' = [j \in cache2array_jobs |-> Queued]
    /\ UNCHANGED <<counters, hostVars, pipeFiles, runVars, mARGS_run, SESSION_PATHS,
                   array2cache_jobs, cache2array_jobs>>

\* update_txt: the lines that equal a job's source are dropped from the list
update_txt(lines, processed_sources) == lines \ processed_sources

MoverFinish ==
    /\ mpc = "c2a"
    /\ \A j \in DOMAIN jobs : jobs[j].pc \in Finished
    /\ A2C_TXT' = update_txt(A2C_TXT, { j.src : j \in array2cache_jobs })
    /\ C2A_TXT' = update_txt(C2A_TXT, { j.src : j \in cache2array_jobs })
    /\ MoverAtRest
    /\ UNCHANGED <<counters, hostVars, EXCLUDE_TXT, db, runVars>>

(***************************************************************************)
(* scripts/embycache_collect.py                                            *)
(***************************************************************************)
SIDECAR_EXTS == {".nfo", ".jpg", ".jpeg", ".png", ".tbn", ".ico", ".bif"}

\* str.lower() on the tokens of a name
LowerTok(t) ==
    CASE t = "E1" -> "e1"
      [] t = ".NFO" -> ".nfo"
      [] t = ".MKV" -> ".mkv"
      [] OTHER -> t
Lower(name) == [i \in 1..Len(name) |-> LowerTok(name[i])]

in_allowed_library(container_path) ==
    /\ StartsWith(container_path, EMBY_SOURCE)
    /\ Len(container_path) > Len(EMBY_SOURCE)
    /\ container_path[Len(EMBY_SOURCE) + 1] \in VALID_LIBRARIES

\* the ValueError of Path.relative_to, which container_to_host does not catch
ValueError == << <<"ValueError">> >>

container_to_host(container_path) ==
    IF ~StrStartsWith(container_path, EMBY_SOURCE) THEN container_path
    ELSE IF ~StartsWith(container_path, EMBY_SOURCE) THEN ValueError
    ELSE IF Len(container_path) = Len(EMBY_SOURCE) THEN REAL_SOURCE
    ELSE LET lib == container_path[Len(EMBY_SOURCE) + 1]
             mapped == IF InLibMap(lib) THEN LIB_MAP(lib) ELSE lib
         IN REAL_SOURCE \o << mapped >> \o Tail0(container_path, Len(EMBY_SOURCE) + 1)

\* number_episodes of the settings
NUMBER_EPISODES == 5

\* What the server answers to the requests of fetch_ondeck for one user: the resume
\* items and the playlist in the order returned (episodes, named by their files) and
\* the episodes whose series' episode list can be fetched.
PipeAnswer(items) ==
    [resume_ok |-> TRUE, resume |-> items, eps_ok |-> Rels,
     playlist_ok |-> TRUE, playlist |-> << >>]

\* add_item over the items of one answer: an allowed path not yet in out is appended
\* and fetch_extra_episodes asks for the episodes that follow it, of which the series
\* of the model have none; when that request fails, the exception ends the loop
RECURSIVE AddItems(_, _, _)
AddItems(u, items, out) ==
    IF items = << >> THEN out
    ELSE LET p == ContainerPath(Head(items))
         IN IF ~in_allowed_library(p) \/ p \in out THEN AddItems(u, Tail(items), out)
            ELSE IF NUMBER_EPISODES > 1 /\ Head(items) \notin u.eps_ok THEN out \cup {p}
            ELSE AddItems(u, Tail(items), out \cup {p})

\* fetch_ondeck: the resume items, and the playlist when they gave nothing
fetch_ondeck(u) ==
    LET out == IF u.resume_ok THEN AddItems(u, u.resume, {}) ELSE {}
    IN IF out # {} THEN out
       ELSE IF u.playlist_ok THEN AddItems(u, u.playlist, {}) ELSE {}

\* the container paths of all users of user_list
OnDeckOf(users) == UNION { fetch_ondeck(users[i]) : i \in 1..Len(users) }

\* p.replace('/mnt/user/', '/mnt/cache/', 1) and p.replace('/mnt/user/', '/mnt/user0/', 1)
UserToCache(p) ==
    IF StartsWith(p, USER_ROOT) /\ Len(p) > Len(USER_ROOT)
    THEN ReplacePrefix(p, USER_ROOT, << <<"mnt">>, <<"cache">> >>) ELSE p
UserToArray(p) ==
    IF StartsWith(p, USER_ROOT) /\ Len(p) > Len(USER_ROOT)
    THEN ReplacePrefix(p, USER_ROOT, << <<"mnt">>, <<"user", "0">> >>) ELSE p

\* rebuild_index: the file names found below each tier
rebuild_index(c, a) ==
    [fresh |-> TRUE,
     cache_names |-> { Basename(r) : r \in { x \in Rels : c[x] > 0 } },
     array_names |-> { Basename(r) : r \in { x \in Rels : a[x] > 0 } }]

IndexInUse(c, a, d) == IF d.fresh THEN d ELSE rebuild_index(c, a)

\* the classification with the name index asked before the paths
LocateIndexFirst(c, a, d, host) ==
    LET rel == Tail0(host, Len(REAL_SOURCE))
    IN IF Basename(host) \in d.cache_names THEN "cache"
       ELSE IF Basename(host) \in d.array_names THEN "array"
       ELSE IF IsFile(c, a, CACHE_DIR \o rel) THEN "cache"
       ELSE IF IsFile(c, a, ARRAY_ROOT \o rel) THEN "array"
       ELSE "missing"

\* the classification of a host path (below REAL_SOURCE)
Locate(c, a, d, host) ==
    LET rel == Tail0(host, Len(REAL_SOURCE))
    IN IF IsFile(c, a, CACHE_DIR \o rel) THEN "cache"
       ELSE IF IsFile(c, a, ARRAY_ROOT \o rel) THEN "array"
       ELSE IF Basename(host) \in d.cache_names THEN "cache"
       ELSE IF Basename(host) \in d.array_names THEN "array"
       ELSE "missing"

\* the host paths of the on-deck container paths that lie below REAL_SOURCE
Entries(ondeck) ==
    { container_to_host(s) : s \in
        { x \in ondeck : StartsWith(container_to_host(x), REAL_SOURCE) } }

\* the files of a directory of the user share
FilesIn(c, a, dir) ==
    { USER_ROOT \o r : r \in { x \in Rels : /\ USER_ROOT \o Parent(x) = dir
                                            /\ IsFile(c, a, USER_ROOT \o x) } }

IsSidecarOf(f, media) ==
    /\ Suffix(Lower(Basename(f))) \in SIDECAR_EXTS
    /\ StartsWith(Stem(Lower(Basename(f))), Stem(Lower(Basename(media))))

\* the loop over parent.iterdir(): the files of the folder that are sidecars of media
SidecarsOf(media, dirfiles) == { f \in dirfiles : IsSidecarOf(f, media) }

Sidecars(c, a, entries) ==
    UNION { SidecarsOf(m, FilesIn(c, a, Parent(m))) : m \in entries }

PrevCachePaths(c, a, lines) == { p \in lines : IsFile(c, a, UserToCache(p)) }

ExcludePaths(c, a, entries) == entries \cup Sidecars(c, a, entries)

Array2CacheVideosOnly(c, a, d, entries) ==
    { UserToArray(p) : p \in { e \in entries : Locate(c, a, d, e) = "array" } }

Array2Cache(c, a, d, entries) ==
    { UserToArray(p) : p \in { e \in entries : Locate(c, a, d, e) = "array" } }
    \cup
    { UserToArray(sc) : sc \in { x \in Sidecars(c, a, entries) : ~IsFile(c, a, UserToCache(x)) } }

Cache2Array(c, a, prev_lines, entries) ==
    LET new_cache_paths == { p \in ExcludePaths(c, a, entries) : IsFile(c, a, UserToCache(p)) }
        removed == PrevCachePaths(c, a, prev_lines) \ new_cache_paths
    IN { UserToArray(p) : p \in removed }

\* One run of the collect script with --run or without; ondeck is what fetch_ondeck
\* returned for the users of user_list.
Collect(run, ondeck) ==
    /\ tool = "pipe"
    /\ mpc = "idle"
    /\ runs < MaxRuns
    /\ runs' = runs + 1
    /\ LET d == IndexInUse(cache, array, db)
           entries == Entries(ondeck)
       IN /\ db' = d
          /\ EXCLUDE_TXT' = IF run THEN ExcludePaths(cache, array, entries) ELSE EXCLUDE_TXT
          /\ A2C_TXT' = Array2Cache(cache, array, d, entries)
          /\ C2A_TXT' = Cache2Array(cache, array, EXCLUDE_TXT, entries)
    /\ UNCHANGED <<hostVars, moverVars, runVars, loads>>

(***************************************************************************)
(* embycache_run.py: configuration and pure helpers of class EmbyCache     *)
(***************************************************************************)
cache_path == << <<"mnt">>, <<"cache">> >>
array_path == << <<"mnt">>, <<"user", "0">> >>
min_free_percent == 10
libraries == { "TV" }
path_mappings ==
    { [d |-> EMBY_SOURCE \o << <<"Serien">> >>, h |-> USER_ROOT \o << <<"TV">> >>],
      [d |-> EMBY_SOURCE \o << <<"Kids">> >>, h |-> USER_ROOT \o << <<"Kids">> >>] }

\* get_host_path: the longest matching container prefix is replaced
get_host_path(docker_path) ==
    LET M == { m \in path_mappings : StrStartsWith(docker_path, m.d) }
    IN IF M = {} THEN docker_path
       ELSE LET best == CHOOSE m \in M : \A o \in M : Len(o.d) <= Len(m.d)
            IN StrReplacePrefix(docker_path, best.d, best.h)

\* "/mnt/user" in s: the text occurs at a segment that begins with the token "user"
MntUserAt(s) ==
    { i \in 1..(Len(s) - 1) : s[i] = <<"mnt">> /\ s[i + 1][1] = "user" }
HasMntUser(s) == MntUserAt(s) # {}

\* s.replace("/mnt/user", new, 1): what follows "user" in its segment is kept
ReplaceMntUser(s, new) ==
    IF ~HasMntUser(s) THEN s
    ELSE LET i == CHOOSE x \in MntUserAt(s) : \A y \in MntUserAt(s) : x <= y
             last == new[Len(new)] \o Tail0(s[i + 1], 1)
         IN SubSeq(s, 1, i - 1) \o SubSeq(new, 1, Len(new) - 1) \o << last >> \o Tail0(s, i + 1)

\* l in src, for a library name l: some segment of src holds the token l
LibIn(l, src) == \E i \in 1..Len(src) : \E k \in 1..Len(src[i]) : src[i][k] = l

\* the files of directory dir as the user share or a tier lists them
ListDir(c, a, dir) ==
    { Join(dir, Basename(r)) : r \in
        { x \in Rels : /\ \/ dir = USER_ROOT \o Parent(x)
                          \/ dir = cache_path \o Parent(x)
                          \/ dir = array_path \o Parent(x)
                       /\ IsFile(c, a, Join(dir, Basename(x))) } }

\* the files of the tree below dir (rglob)
ListTree(c, a, dir) ==
    { f \in UNION { ListDir(c, a, root \o d) : root \in {USER_ROOT, cache_path, array_path},
                                              d \in DirRels } : StartsWith(f, dir) }

\* the files taken for a video: a movie's whole tree (rglob), otherwise the files of the
\* folder (iterdir) whose name starts with the stem of the video
FilesFor(type, video_path, dirfiles, treefiles) ==
    IF type = "Movie" THEN treefiles
    ELSE { f \in dirfiles : StartsWith(Basename(f), Stem(Basename(video_path))) }

get_files_to_move(c, a, emby_item) ==
    IF emby_item.Path = << >> THEN {}
    ELSE LET host == get_host_path(emby_item.Path)
             cache_try == ReplaceMntUser(host, cache_path)
             video_path == IF IsFile(c, a, host) THEN host
                           ELSE IF HasMntUser(host) /\ IsFile(c, a, cache_try) THEN cache_try
                           ELSE << >>
         IN IF video_path = << >> THEN {}
            ELSE FilesFor(emby_item.Type, video_path, ListDir(c, a, Parent(video_path)),
                          ListTree(c, a, Parent(video_path)))

\* the order of str(path): the rank of a path among the paths of the model
TokenOrder == << ".mkv", ".nfo", "/", "0", "A", "B", "Kids", "TV", "cache", "e1", "mnt", "user" >>
TokRank(t) == CHOOSE i \in 1..Len(TokenOrder) : TokenOrder[i] = t
RECURSIVE PathKey(_)
PathKey(p) ==
    IF p = << >> THEN << >>
    ELSE << TokRank("/") >> \o [i \in 1..Len(p[1]) |-> TokRank(p[1][i])] \o PathKey(Tail(p))
RECURSIVE KeyLess(_, _)
KeyLess(x, y) ==
    IF x = << >> THEN y # << >>
    ELSE IF y = << >> THEN FALSE
    ELSE IF x[1] = y[1] THEN KeyLess(Tail(x), Tail(y))
    ELSE x[1] < y[1]
PathLess(p, q) == KeyLess(PathKey(p), PathKey(q))

\* the sort key without the priority
EntryLessByPath(x, y) == PathLess(x.path, y.path)

\* the sort key of all_files_with_prio.sort: (priority, str(path))
EntryLess(x, y) == x.prio < y.prio \/ (x.prio = y.prio /\ PathLess(x.path, y.path))

RECURSIVE SortEntries(_)
SortEntries(S) ==
    IF S = {} THEN << >>
    ELSE LET m == CHOOSE x \in S : \A y \in S \ {x} : EntryLess(x, y)
         IN << m >> \o SortEntries(S \ {m})

Item(r) == [Path |-> ContainerPath(r), Type |-> "Episode"]

\* What the server answers to the requests made for one user: the resume items, the
\* favourite series (each named by its next unplayed episode) and the series whose
\* episode request succeeds.
Answer(R, F) ==
    [resume_ok |-> TRUE, resume |-> R, favs_ok |-> TRUE, favs |-> F, eps_ok |-> Videos]

\* get_resume_items_safe: a failed request yields no item
get_resume_items_safe(u) == IF u.resume_ok THEN u.resume ELSE {}

\* get_next_episodes_for_series: the unplayed episodes of the series, none after a
\* failed request; the series of the model have one episode each
get_next_episodes_for_series(u, series) == IF series \in u.eps_ok THEN {series} ELSE {}

FilesOfItems(c, a, items) == UNION { get_files_to_move(c, a, Item(r)) : r \in items }

\* the loop over the users: a file is appended with the priority of the first request
\* that yields it (seen_paths)
RECURSIVE OnDeckOfUsers(_, _, _, _)
OnDeckOfUsers(c, a, users, all) ==
    IF users = << >> THEN all
    ELSE LET u == Head(users)
             seen == { e.path : e \in all }
             items == get_resume_items_safe(u)
             nexts == UNION { get_next_episodes_for_series(u, r) : r \in items }
             first == FilesOfItems(c, a, items \cup nexts) \ seen
             eps == IF u.favs_ok
                    THEN UNION { get_next_episodes_for_series(u, s) : s \in u.favs }
                    ELSE {}
             second == FilesOfItems(c, a, eps) \ (seen \cup first)
         IN OnDeckOfUsers(c, a, Tail(users),
                all \cup { [prio |-> 1, path |-> f, reason |-> "RESUME"] : f \in first }
                    \cup { [prio |-> 2, path |-> f, reason |-> "FAVORIT"] : f \in second })

\* get_on_deck_extended: the users' files, sorted by priority and path
get_on_deck_extended(c, a, users) == SortEntries(OnDeckOfUsers(c, a, users, {}))

\* get_active_sessions: the base names of the playing files
get_active_sessions(play) == { Basename(ContainerPath(r)) : r \in play }

\* find_real_disk_path: the disk of the array that holds the file
find_real_disk_path(user_share_path) ==
    IF HasMntUser(user_share_path)
    THEN << <<"mnt">>, <<"disk", "1">> >> \o Tail0(user_share_path, 2)
    ELSE user_share_path

\* a check that protects the base folder only
is_protected_root_folderBaseOnly(folder_path, base_path) == folder_path = base_path

is_protected_root_folder(folder_path, base_path) ==
    StartsWith(folder_path, base_path) /\ Len(folder_path) - Len(base_path) <= 1

(***************************************************************************)
(* embycache_run.py: EmbyCache(run_mode).run()                             *)
(***************************************************************************)
NoMove == [src |-> << >>, dst |-> << >>, ret |-> 0]
NoStats == [to_cache_bytes |-> 0, to_array_bytes |-> 0]
NoOrigin == [k \in {} |-> << >>]

\* a run without the breaker
PromoteAlways(free) == TRUE

\* free_pct > min_free_percent, with free_pct = free / total * 100
PromoteAllowed(free) == free * 100 > min_free_percent * CacheTotal

\* an assignment that is lost
DictPutNothing(d, k, v) == d

\* d[k] = v
DictPut(d, k, v) == [x \in DOMAIN d \cup {k} |-> IF x = k THEN v ELSE d[x]]
DictDrop(d, K) == [x \in DOMAIN d \ K |-> d[x]]

\* where the loop of phase 1 goes after entry i
AfterEntry(i, list) == IF i >= Len(list) THEN "phase2" ELSE "phase1"

\* __init__ and the head of run(): the previous snapshot and origin map are loaded,
\* the predictor and the sessions are queried, the cache's free space is read.  A
\* failed session request leaves sessions empty, which is the start with nothing playing.
RunStart(mode, deck, usage_ok) ==
    /\ tool = "run"
    /\ rpc = "idle"
    /\ runs < MaxRuns
    /\ runs' = runs + 1
    /\ run_mode' = mode
    /\ previous_exclude_list' = exclude_file
    /\ origin_data' = origin_file
    /\ on_deck_data' = deck
    /\ sessions' = get_active_sessions(playing)
    /\ stat_free' = IF usage_ok THEN CacheFree(cache, cacheOther) ELSE 0
    /\ current_on_deck_paths' = {}
    /\ files_to_move_back' = {}
    /\ stats' = NoStats
    /\ idx' = 1
    /\ rs' = NoMove
    /\ rpc' = IF PromoteAllowed(stat_free') THEN AfterEntry(0, on_deck_data') ELSE "phase2"
    /\ UNCHANGED <<hostVars, pipeVars, runFiles, loads>>

InLibraries(src) == libraries = {} \/ \E l \in libraries : LibIn(l, src)

\* one iteration of the loop of phase 1, up to the start of rsync in robust_move
Phase1Step ==
    /\ rpc = "phase1"
    /\ LET e == on_deck_data[idx]
           src == e.path
           cache_dst == ReplaceMntUser(src, cache_path)
           arr_src == ReplaceMntUser(src, array_path)
           skip == /\ UNCHANGED <<cacheDirs, origin_data, stats, rs, current_on_deck_paths>>
                   /\ idx' = idx + 1
                   /\ rpc' = AfterEntry(idx, on_deck_data)
       IN IF ~InLibraries(src) THEN skip
          ELSE IF ~HasMntUser(src)
          THEN /\ current_on_deck_paths' = current_on_deck_paths \cup {src}
               /\ UNCHANGED <<cacheDirs, origin_data, stats, rs>>
               /\ idx' = idx + 1
               /\ rpc' = AfterEntry(idx, on_deck_data)
          ELSE /\ current_on_deck_paths' = current_on_deck_paths \cup {cache_dst}
               /\ IF IsFile(cache, array, arr_src) /\ ~IsFile(cache, array, cache_dst)
                     /\ Basename(src) \notin sessions
                  THEN /\ stats' = [stats EXCEPT !.to_cache_bytes =
                                       @ + SizeAt(cache, array, arr_src)]
                       /\ origin_data' = DictPut(origin_data, cache_dst,
                                                 find_real_disk_path(arr_src))
                       /\ IF run_mode
                          THEN /\ cacheDirs' = DirsAfterMkdir(cacheDirs, cache_path,
                                                              Parent(cache_dst))
                               /\ rs' = [src |-> arr_src, dst |-> cache_dst, ret |-> 0]
                               /\ rpc' = "rsync"
                               /\ idx' = idx
                          ELSE /\ UNCHANGED <<cacheDirs, rs>>
                               /\ idx' = idx + 1
                               /\ rpc' = AfterEntry(idx, on_deck_data)
                  ELSE /\ UNCHANGED <<cacheDirs, origin_data, stats, rs>>
                       /\ idx' = idx + 1
                       /\ rpc' = AfterEntry(idx, on_deck_data)
    /\ UNCHANGED <<counters, cache, array, arrayDirs, cacheOther, arrayOther, playing, tool, orch, probe, pipeVars,
                   runFiles, run_mode, previous_exclude_list, on_deck_data, sessions,
                   stat_free, files_to_move_back>>

\* the rsync subprocess of robust_move exits
RobustRsync ==
    /\ rpc = "rsync"
    /\ LET size == SizeAt(cache, array, rs.src)
           old == SizeAt(cache, array, rs.dst)
           free == free_space(cache, array, cacheOther, arrayOther, Parent(rs.dst))
       IN \E o \in RsyncOutcomes(size, old, free) :
            /\ cache' = CacheAfterPut(cache, array, rs.dst, o.n)
            /\ array' = ArrayAfterPut(cache, array, rs.dst, o.n)
            /\ rs' = [rs EXCEPT !.ret = o.ret]
    /\ rpc' = "verify"
    /\ UNCHANGED <<counters, cacheDirs, arrayDirs, cacheOther, arrayOther, playing, tool, orch, probe, pipeVars,
                   runFiles, run_mode, previous_exclude_list, origin_data, on_deck_data, idx,
                   sessions, stat_free, current_on_deck_paths, files_to_move_back, stats>>

\* the check of robust_move: exit code 0, the destination exists with the source's size
RobustVerified(c, a, m) ==
    /\ m.ret = 0
    /\ IsFile(c, a, m.dst)
    /\ SizeAt(c, a, m.dst) = SizeAt(c, a, m.src)

\* the rest of robust_move: the check and os.remove(src), which may fail
\* the errors robust_move writes to the log for a move m whose copy was or was not
\* verified and whose source was or was not removed
robust_move_errors(m, verified, removed) == IF m.ret # 0 THEN {"Rsync Fehler"} ELSE {}

RobustCommit ==
    /\ rpc = "verify"
    /\ IF RobustVerified(cache, array, rs)
       THEN \E ok \in BOOLEAN :
              IF ok THEN /\ cache' = CacheAfterPut(cache, array, rs.src, 0)
                         /\ array' = ArrayAfterPut(cache, array, rs.src, 0)
                    ELSE UNCHANGED <<cache, array>>
       ELSE UNCHANGED <<cache, array>>
    /\ rs' = NoMove
    /\ idx' = idx + 1
    /\ rpc' = AfterEntry(idx, on_deck_data)
    /\ UNCHANGED <<counters, cacheDirs, arrayDirs, cacheOther, arrayOther, playing, tool, orch, probe, pipeVars,
                   runFiles, run_mode, previous_exclude_list, origin_data, on_deck_data,
                   sessions, stat_free, current_on_deck_paths, files_to_move_back, stats>>

RECURSIVE SumPaths(_, _, _)
SumPaths(c, a, S) ==
    IF S = {} THEN 0
    ELSE LET p == CHOOSE x \in S : TRUE IN SizeAt(c, a, p) + SumPaths(c, a, S \ {p})

\* phase 2: the previous snapshot's files that go back to the array
StillThere(c, a, prev, current) == { o \in prev : IsFile(c, a, o) /\ o \notin current }
MoveBack(c, a, prev, current, sess) ==
    { o \in StillThere(c, a, prev, current) : Basename(o) \notin sess }
Deferred(c, a, prev, current, sess) ==
    { o \in StillThere(c, a, prev, current) : Basename(o) \in sess }

Phase2 ==
    /\ rpc = "phase2"
    /\ LET back == MoveBack(cache, array, previous_exclude_list, current_on_deck_paths, sessions)
       IN /\ files_to_move_back' = back
          /\ current_on_deck_paths' = current_on_deck_paths \cup
                Deferred(cache, array, previous_exclude_list, current_on_deck_paths, sessions)
          /\ stats' = [stats EXCEPT !.to_array_bytes = @ + SumPaths(cache, array, back)]
          /\ origin_data' = IF run_mode THEN DictDrop(origin_data, back) ELSE origin_data
          /\ rpc' = IF run_mode /\ back # {} THEN "mover" ELSE "finish"
    /\ UNCHANGED <<counters, hostVars, pipeVars, runFiles, run_mode, previous_exclude_list,
                   on_deck_data, idx, sessions, stat_free, rs>>

\* a directory with no file and no subdirectory in it
DirEmpty(files, dirs, d) ==
    /\ \A r \in Rels : files[r] > 0 => Parent(r) # d
    /\ \A x \in dirs : Parent(x) # d

\* cleanup_moved_source_dirs: the moved files' parent directories, deepest first; an
\* unprotected one is removed when empty, and then its parent likewise
RECURSIVE PruneSources(_, _, _)
PruneSources(files, dirs, todo) ==
    IF todo = {} THEN dirs
    ELSE LET d == CHOOSE x \in todo : \A y \in todo : Len(y) <= Len(x)
             rest == todo \ {d}
             rel == Tail0(d, Len(cache_path))
             parent == Parent(rel)
         IN IF is_protected_root_folder(d, cache_path) \/ ~DirEmpty(files, dirs, rel)
            THEN PruneSources(files, dirs, rest)
            ELSE LET d1 == dirs \ {rel}
                 IN IF /\ ~is_protected_root_folder(cache_path \o parent, cache_path)
                       /\ parent \in d1
                       /\ DirEmpty(files, d1, parent)
                    THEN PruneSources(files, d1 \ {parent}, rest)
                    ELSE PruneSources(files, d1, rest)

cleanup_moved_source_dirs(files, dirs, file_list) ==
    PruneSources(files, dirs,
                 { Parent(f) : f \in { x \in file_list :
                       /\ StartsWith(x, cache_path)
                       /\ Tail0(Parent(x), Len(cache_path)) \in dirs } })

\* clean_empty_dirs: one bottom-up walk of the array; a directory is removed when it
\* was listed without entries and is neither the base, a mapped folder nor at depth 1
MappedFolders ==
    { array_path \o Tail0(m.h, 2) : m \in { x \in path_mappings : HasMntUser(x.h) } }
clean_empty_dirs(files, dirs) ==
    dirs \ { d \in dirs : /\ array_path \o d \notin MappedFolders
                          /\ ~is_protected_root_folder(array_path \o d, array_path)
                          /\ DirEmpty(files, dirs, d) }

\* the host's mover with the source folders pruned whatever its exit code
ExecuteMoverPruning(rc, moved) ==
    /\ rpc = "mover"
    /\ moved \subseteq { f \in files_to_move_back : OnCache(f) /\ IsFile(cache, array, f) }
    /\ SumPaths(cache, array, moved)
         <= ArrayFree(array, arrayOther)
            + SumSizes([r \in Rels |-> IF cache_path \o r \in moved THEN array[r] ELSE 0], Rels)
    /\ array' = [r \in Rels |-> IF cache_path \o r \in moved THEN cache[r] ELSE array[r]]
    /\ cache' = [r \in Rels |-> IF cache_path \o r \in moved THEN 0 ELSE cache[r]]
    /\ arrayDirs' = arrayDirs \cup UNION { Ancestors(Parent(RelOf(f))) : f \in moved }
    /\ cacheDirs' = cleanup_moved_source_dirs(cache', cacheDirs, files_to_move_back)
    /\ rpc' = "finish"
    /\ UNCHANGED <<counters, cacheOther, arrayOther, playing, tool, orch, probe, pipeVars, runFiles, run_mode,
                   previous_exclude_list, origin_data, on_deck_data, idx, sessions,
                   stat_free, current_on_deck_paths, files_to_move_back, stats, rs>>

\* execute_unraid_mover: the host's mover gets the list on stdin; it exits with rc
\* after it relocated the files of moved to the array
ExecuteMover(rc, moved) ==
    /\ rpc = "mover"
    /\ moved \subseteq { f \in files_to_move_back : OnCache(f) /\ IsFile(cache, array, f) }
    /\ SumPaths(cache, array, moved)
         <= ArrayFree(array, arrayOther)
            + SumSizes([r \in Rels |-> IF cache_path \o r \in moved THEN array[r] ELSE 0], Rels)
    /\ array' = [r \in Rels |-> IF cache_path \o r \in moved THEN cache[r] ELSE array[r]]
    /\ cache' = [r \in Rels |-> IF cache_path \o r \in moved THEN 0 ELSE cache[r]]
    /\ arrayDirs' = arrayDirs \cup UNION { Ancestors(Parent(RelOf(f))) : f \in moved }
    /\ cacheDirs' = IF rc = 0
                    THEN cleanup_moved_source_dirs(cache', cacheDirs, files_to_move_back)
                    ELSE cacheDirs
    /\ rpc' = "finish"
    /\ UNCHANGED <<counters, cacheOther, arrayOther, playing, tool, orch, probe, pipeVars, runFiles, run_mode,
                   previous_exclude_list, origin_data, on_deck_data, idx, sessions,
                   stat_free, current_on_deck_paths, files_to_move_back, stats, rs>>

\* what the variables of run() hold while it does not run
RunAtRest ==
    /\ rpc' = "idle"
    /\ run_mode' = FALSE
    /\ previous_exclude_list' = {}
    /\ origin_data' = NoOrigin
    /\ on_deck_data' = << >>
    /\ idx' = 1
    /\ sessions' = {}
    /\ stat_free' = 0
    /\ current_on_deck_paths' = {}
    /\ files_to_move_back' = {}
    /\ stats' = NoStats
    /\ rs' = NoMove

\* the tail of run(): clean_empty_dirs, then both state files are written in one try
\* block; written tells how far the writes got
RunFinish(written) ==
    /\ rpc = "finish"
    /\ arrayDirs' = IF run_mode THEN clean_empty_dirs(array, arrayDirs) ELSE arrayDirs
    /\ exclude_file' = IF run_mode /\ written \in {"snapshot", "both"}
                       THEN current_on_deck_paths ELSE exclude_file
    /\ origin_file' = IF run_mode /\ written = "both"
                      THEN DictDrop(origin_data, DOMAIN origin_data \ current_on_deck_paths)
                      ELSE origin_file
    /\ RunAtRest
    /\ UNCHANGED <<counters, cache, array, cacheDirs, cacheOther, arrayOther, playing, tool, orch, probe,
                   pipeVars>>

(***************************************************************************)
(* The environment                                                         *)
(***************************************************************************)
PlayingChoices == { S \in SUBSET Videos : Cardinality(S) <= 1 }

\* Playback is followed while no script runs and right after a script has read the
\* sessions, which is where a change of it can make a difference to the script.
JustLoaded ==
    \/ mpc = "planned"
    \/ rpc \in {"phase1", "phase2"} /\ idx = 1 /\ current_on_deck_paths = {}
MayStart ==
    \/ tool = "run" /\ runs < MaxRuns
    \/ tool = "pipe" /\ (runs < MaxRuns \/ loads < MaxLoads)
Quiet == (mpc = "idle" /\ rpc = "idle" /\ MayStart) \/ JustLoaded

\* a playback session starts or stops
SessionsChange(S) ==
    /\ Quiet
    /\ S \in PlayingChoices
    /\ S # playing
    /\ playing' = S
    /\ UNCHANGED <<counters, cache, array, cacheDirs, arrayDirs, cacheOther, arrayOther, tool, orch, probe,
                   pipeVars, runVars>>

\* the index file gets older than INDEX_TTL_S
IndexExpires ==
    /\ tool = "pipe"
    /\ mpc = "idle"
    /\ MayStart
    /\ db.fresh
    /\ db' = [db EXCEPT !.fresh = FALSE]
    /\ UNCHANGED <<counters, hostVars, EXCLUDE_TXT, A2C_TXT, C2A_TXT, moverVars, runVars>>

(***************************************************************************)
(* Initial states and the next-state relation                              *)
(***************************************************************************)
CacheOtherChoices == {0, 6}
ArrayOtherChoices == {0, 8}

DirsOf(files) ==
    { <<Basename(<<l>>)>> : l \in { r[1] : r \in Rels } }
    \cup UNION { Ancestors(Parent(r)) : r \in { x \in Rels : files[x] > 0 } }

\* no call of a path function is looked at
NoProbe == [fn |-> "-", arg |-> << >>, out |-> << >>, done |-> FALSE]

\* start.py is not running
NoCode == 0 - 1
NotStarted ==
    [pc |-> "off", run |-> FALSE, rc1 |-> NoCode, rc2 |-> NoCode, exit |-> NoCode,
     collects |-> 0, movers |-> 0]

\* the files of the library are on one of the tiers each; others are the files that
\* exist outside of the library, on the array
InitHostWith(others) ==
    /\ \E onc \in SUBSET (Rels \ {E1X}) :
         /\ cache = [r \in Rels |-> IF r \in onc THEN FullSize(r) ELSE 0]
         /\ array = [r \in Rels |-> IF r \in onc \/ (r = E1X /\ r \notin others)
                                     THEN 0 ELSE FullSize(r)]
    /\ cacheDirs = DirsOf(cache)
    /\ arrayDirs = DirsOf(array)
    /\ cacheOther \in { n \in CacheOtherChoices : CacheFree(cache, n) >= 0 }
    /\ arrayOther \in { n \in ArrayOtherChoices : ArrayFree(array, n) >= 0 }
    /\ playing = {}
    /\ tool \in {"run", "pipe"}
    /\ orch = NotStarted

\* The model starts after earlier runs: the snapshot is the one an enact run wrote for
\* some on-deck videos, each with the files that share its stem (the sidecars).
FilesOf(v) == { r \in Rels : Parent(r) = Parent(v) /\ StartsWith(Basename(r), Stem(Basename(v))) }
SnapshotChoices == { UNION { FilesOf(v) : v \in S } : S \in SUBSET Videos }

\* The lists are plain text files in datafiles/: the collect script rewrites them, and
\* the mover takes whatever lines it finds, a cache path written by hand included.
ListChoices == { {}, { CACHE_DIR \o E1B } }

InitPipe ==
    /\ EXCLUDE_TXT \in IF tool = "pipe"
                      THEN { { USER_ROOT \o r : r \in S } : S \in SnapshotChoices }
                      ELSE { {} }
    /\ A2C_TXT = {}
    /\ C2A_TXT \in IF tool = "pipe" THEN ListChoices ELSE { {} }
    /\ db = NoDb
    /\ mpc = "idle"
    /\ mARGS_run = FALSE
    /\ SESSION_PATHS = {}
    /\ array2cache_jobs = {}
    /\ cache2array_jobs = {}
    /\ jobs = NoJobs

InitRun ==
    /\ exclude_file \in IF tool = "run"
                       THEN { { cache_path \o r : r \in S } : S \in SnapshotChoices }
                       ELSE { {} }
    /\ origin_file = NoOrigin
    /\ rpc = "idle"
    /\ run_mode = FALSE
    /\ previous_exclude_list = {}
    /\ origin_data = NoOrigin
    /\ on_deck_data = << >>
    /\ idx = 1
    /\ sessions = {}
    /\ stat_free = 0
    /\ current_on_deck_paths = {}
    /\ files_to_move_back = {}
    /\ stats = NoStats
    /\ rs = NoMove

Init ==
    InitHostWith({}) /\ InitPipe /\ InitRun /\ runs = 0 /\ loads = 0 /\ probe = NoProbe

\* The answers of the server the runs are followed on: one user with any resume items
\* of the library or the video outside of it,
\* or two users of whom the first has a favourite series or a failed request and the
\* second one resume item.
OneVideo == { {v} : v \in Videos }
LeadAnswers ==
    { Answer({}, {E1A}),
      [Answer({E1B}, {}) EXCEPT !.resume_ok = FALSE],
      [Answer({}, {E1A}) EXCEPT !.favs_ok = FALSE],
      [Answer({}, {E1A}) EXCEPT !.eps_ok = Videos \ {E1A}] }
UserChoices ==
    { << Answer(R, {}) >> : R \in SUBSET Videos \cup { {E1X} } }
    \cup { << u, Answer(R, {}) >> : u \in LeadAnswers, R \in OneVideo }

\* The answers the collect script is followed on: one user with resume items of the
\* library, with the video outside of it, with a failing episode request or with a
\* failing resume request and a playlist, or a user whose requests fail and a second one.
FetchChoices ==
    { << PipeAnswer(items) >> :
         items \in { << >>, <<E1A>>, <<E1B>>, <<E1A, E1B>>, <<E1X, E1A>> } }
    \cup { << [PipeAnswer(<<E1A, E1B>>) EXCEPT !.eps_ok = Rels \ {E1A}] >>,
           << [PipeAnswer(<< >>) EXCEPT !.resume_ok = FALSE, !.playlist = <<E1A>>] >>,
           << [PipeAnswer(<<E1A>>) EXCEPT !.resume_ok = FALSE, !.playlist_ok = FALSE],
              PipeAnswer(<<E1B>>) >> }
DeckChoices == { get_on_deck_extended(cache, array, users) : users \in UserChoices }

OnDeckChoices == { OnDeckOf(users) : users \in FetchChoices }

PipeSteps ==
    \/ /\ mpc = "idle" /\ tool = "pipe" /\ runs < MaxRuns
       /\ \E run \in BOOLEAN, ondeck \in OnDeckChoices : Collect(run, ondeck)
    \/ \E run \in BOOLEAN : MoverLoad(run)
    \/ MoverBegin
    \/ \E j \in DOMAIN jobs : SafeMoveStart(j)
    \/ \E j \in DOMAIN jobs : SafeMoveRsync(j)
    \/ \E j \in DOMAIN jobs : SafeMoveVerify(j)
    \/ \E j \in DOMAIN jobs : SafeMoveRemove(j)
    \/ MoverNextPool
    \/ MoverFinish
    \/ IndexExpires

RunSteps ==
    \/ /\ rpc = "idle" /\ tool = "run" /\ runs < MaxRuns
       /\ \E mode \in BOOLEAN, deck \in DeckChoices, usage \in BOOLEAN :
            RunStart(mode, deck, usage)
    \/ Phase1Step
    \/ RobustRsync
    \/ RobustCommit
    \/ Phase2
    \/ /\ rpc = "mover"
       /\ \E rc \in {0, 1}, moved \in SUBSET files_to_move_back : ExecuteMover(rc, moved)
    \/ \E written \in {"none", "snapshot", "both"} : RunFinish(written)

EnvSteps == \E S \in PlayingChoices : SessionsChange(S)

Next == PipeSteps \/ RunSteps \/ EnvSteps

Spec == Init /\ [][Next]_vars

\* the pipeline with a mover whose unlink of the index file may fail
InitOfIndex == Init /\ tool = "pipe"
NextOfIndex ==
    \/ /\ mpc = "idle" /\ tool = "pipe" /\ runs < MaxRuns
       /\ \E run \in BOOLEAN, ondeck \in OnDeckChoices : Collect(run, ondeck)
    \/ \E run \in BOOLEAN : MoverLoad(run)
    \/ \E unlinked \in BOOLEAN : MoverBeginWith(unlinked)
    \/ \E j \in DOMAIN jobs : SafeMoveStart(j)
    \/ \E j \in DOMAIN jobs : SafeMoveRsync(j)
    \/ \E j \in DOMAIN jobs : SafeMoveVerify(j)
    \/ \E j \in DOMAIN jobs : SafeMoveRemove(j)
    \/ MoverNextPool
    \/ MoverFinish
    \/ IndexExpires
    \/ EnvSteps
SpecIndex == InitOfIndex /\ [][NextOfIndex]_vars

\* the monolithic engine alone, and the pipeline alone
InitOfRun == Init /\ tool = "run"
NextOfRun == RunSteps \/ EnvSteps
SpecRun == InitOfRun /\ [][NextOfRun]_vars

InitOfPipe == Init /\ tool = "pipe"
NextOfPipe == PipeSteps \/ EnvSteps
SpecPipe == InitOfPipe /\ [][NextOfPipe]_vars

\* the monolithic engine on a host with a video outside of the monitored library
InitOfLib ==
    InitHostWith({E1X}) /\ InitPipe /\ InitRun /\ runs = 0 /\ loads = 0 /\ tool = "run"
    /\ probe = NoProbe
NextOfLib == RunSteps \/ EnvSteps
SpecLib == InitOfLib /\ [][NextOfLib]_vars

\* the monolithic engine started once more after a run has ended
RunsInARow == 2
InitOfAgain ==
    InitHostWith({}) /\ InitPipe /\ InitRun /\ runs = MaxRuns - RunsInARow /\ loads = 0
    /\ tool = "run" /\ probe = NoProbe
NextOfAgain == RunSteps \/ EnvSteps
SpecAgain == InitOfAgain /\ [][NextOfAgain]_vars

(***************************************************************************)
(* start.py: the orchestrator of the pipeline.  orch.collects and          *)
(* orch.movers are the values of runs and loads when it was started, which *)
(* tell whether the stage it waits for has run.                            *)
(***************************************************************************)
StageCodes == {0, 1, 2}

\* run_stage: the stage's return code, or 1 when subprocess.run raised
run_stage(rc, raised) == IF raised THEN 1 ELSE rc

\* sys.exit(rc) as the exit status the parent sees
sys_exit(rc) == rc % 256

notOrch == <<cache, array, cacheDirs, arrayDirs, cacheOther, arrayOther, playing, tool, probe,
             pipeVars, runVars, counters>>

\* python3 start.py [--run]: the first run_stage spawns the collect script
StartBegin(run) ==
    /\ tool = "pipe"
    /\ orch.pc \in {"off", "done"}
    /\ mpc = "idle"
    /\ runs < MaxRuns /\ loads < MaxLoads
    /\ orch' = [NotStarted EXCEPT !.pc = "collect", !.run = run,
                                  !.collects = runs, !.movers = loads]
    /\ UNCHANGED notOrch

\* the collect script runs while start.py waits in subprocess.run
CollectStage ==
    /\ orch.pc = "collect"
    /\ runs = orch.collects
    /\ \E ondeck \in OnDeckChoices : Collect(orch.run, ondeck)

CollectReturnsAndGoesOn(rc, raised) ==
    /\ orch.pc = "collect"
    /\ raised => runs = orch.collects
    /\ (rc = 0 /\ ~raised) => runs > orch.collects
    /\ orch' = [orch EXCEPT !.rc1 = run_stage(rc, raised), !.pc = "mover"]
    /\ UNCHANGED notOrch

\* rc1 = run_stage(collect_cmd, ...); if rc1 != 0: sys.exit(rc1)
CollectReturns(rc, raised) ==
    /\ orch.pc = "collect"
    /\ raised => runs = orch.collects
    /\ (rc = 0 /\ ~raised) => runs > orch.collects
    /\ LET rc1 == run_stage(rc, raised)
       IN orch' = IF rc1 # 0
                  THEN [orch EXCEPT !.rc1 = rc1, !.pc = "done", !.exit = sys_exit(rc1)]
                  ELSE [orch EXCEPT !.rc1 = rc1, !.pc = "mover"]
    /\ UNCHANGED notOrch

\* the mover script runs while start.py waits in the second subprocess.run
MoverStage ==
    /\ orch.pc = "mover"
    /\ \/ loads = orch.movers /\ MoverLoad(orch.run)
       \/ MoverBegin
       \/ \E j \in DOMAIN jobs : SafeMoveStart(j)
       \/ \E j \in DOMAIN jobs : SafeMoveRsync(j)
       \/ \E j \in DOMAIN jobs : SafeMoveVerify(j)
       \/ \E j \in DOMAIN jobs : SafeMoveRemove(j)
       \/ MoverNextPool
       \/ MoverFinish

\* rc2 = run_stage(mover_cmd, ...); if rc2 != 0: sys.exit(rc2); the end of the script
MoverReturns(rc, raised) ==
    /\ orch.pc = "mover"
    /\ mpc = "idle"
    /\ raised => loads = orch.movers
    /\ (rc = 0 /\ ~raised) => loads > orch.movers
    /\ LET rc2 == run_stage(rc, raised)
       IN orch' = [orch EXCEPT !.rc2 = rc2, !.pc = "done",
                               !.exit = IF rc2 # 0 THEN sys_exit(rc2) ELSE 0]
    /\ UNCHANGED notOrch

StartSteps ==
    \/ \E run \in BOOLEAN : StartBegin(run)
    \/ CollectStage
    \/ \E rc \in StageCodes, raised \in BOOLEAN : CollectReturns(rc, raised)
    \/ MoverStage
    \/ \E rc \in StageCodes, raised \in BOOLEAN : MoverReturns(rc, raised)

InitOfStart == Init /\ tool = "pipe"
NextOfStart == StartSteps \/ EnvSteps \/ IndexExpires
SpecStart == InitOfStart /\ [][NextOfStart]_vars

(***************************************************************************)
(* The two path translations, called on server paths of every shape: below *)
(* the server root, below a directory whose name begins like the root's or *)
(* like a library's, and elsewhere.                                        *)
(***************************************************************************)
MaxDepth == 4
ServerSegments ==
    [i \in 1..MaxDepth |->
        CASE i = 1 -> { <<"data">>, <<"data", "2">>, <<"media">> }
          [] i = 2 -> { <<"Serien">>, <<"Serien", "2">>, <<"Kids">>, <<"Filme">> }
          [] i = 3 -> { <<"A">>, <<"B">> }
          [] OTHER -> { <<"e1", ".mkv">> }]
ServerPaths ==
    UNION { { p \in [1..n -> UNION { ServerSegments[i] : i \in 1..MaxDepth }] :
                \A i \in 1..n : p[i] \in ServerSegments[i] } : n \in 1..MaxDepth }

InitOfPaths ==
    /\ InitHostWith({}) /\ InitPipe /\ InitRun /\ runs = 0 /\ loads = 0
    /\ tool = "run" /\ exclude_file = {}
    /\ cache = [r \in Rels |-> 0] /\ cacheOther = 0 /\ arrayOther = 0
    /\ probe \in { [NoProbe EXCEPT !.fn = f, !.arg = p] :
                     f \in {"container_to_host", "get_host_path"}, p \in ServerPaths }

CallContainerToHost ==
    /\ probe.fn = "container_to_host" /\ ~probe.done
    /\ probe' = [probe EXCEPT !.out = container_to_host(probe.arg), !.done = TRUE]
    /\ UNCHANGED <<cache, array, cacheDirs, arrayDirs, cacheOther, arrayOther, playing, tool,
                   orch, pipeVars, runVars, counters>>

CallGetHostPath ==
    /\ probe.fn = "get_host_path" /\ ~probe.done
    /\ probe' = [probe EXCEPT !.out = get_host_path(probe.arg), !.done = TRUE]
    /\ UNCHANGED <<cache, array, cacheDirs, arrayDirs, cacheOther, arrayOther, playing, tool,
                   orch, pipeVars, runVars, counters>>

NextOfPaths == CallContainerToHost \/ CallGetHostPath
SpecPaths == InitOfPaths /\ [][NextOfPaths]_vars

\* ---- the classification of one host path by the collect script ----------
\* the index file is absent, or was built while the files lay on the tiers otherwise
DbChoices ==
    { NoDb } \cup
    { rebuild_index([r \in Rels |-> IF r \in onc THEN FullSize(r) ELSE 0],
                    [r \in Rels |-> IF r \in ona THEN FullSize(r) ELSE 0]) :
        onc \in SUBSET Videos, ona \in SUBSET (Rels \ {E1X}) }

\* host paths of on-deck items: the files of the model and an episode no tier holds
E2A == << <<"TV">>, <<"A">>, <<"e2", ".mkv">> >>
HostPaths == { REAL_SOURCE \o r : r \in Rels \cup {E2A} }

InitOfLocate ==
    /\ InitHostWith({}) /\ InitRun /\ runs = 0 /\ loads = 0
    /\ tool = "pipe" /\ cacheOther = 0 /\ arrayOther = 0
    /\ EXCLUDE_TXT = {} /\ A2C_TXT = {} /\ C2A_TXT = {}
    /\ db \in DbChoices
    /\ mpc = "idle" /\ mARGS_run = FALSE /\ SESSION_PATHS = {}
    /\ array2cache_jobs = {} /\ cache2array_jobs = {} /\ jobs = NoJobs
    /\ probe \in { [NoProbe EXCEPT !.fn = "loc", !.arg = h] : h \in HostPaths }

\* the index in use is read, then the path is classified
CallLocate ==
    /\ probe.fn = "loc" /\ ~probe.done
    /\ LET d == IndexInUse(cache, array, db)
       IN /\ db' = d
          /\ probe' = [probe EXCEPT !.out = << <<Locate(cache, array, d, probe.arg)>> >>,
                                    !.done = TRUE]
    /\ UNCHANGED <<cache, array, cacheDirs, arrayDirs, cacheOther, arrayOther, playing, tool,
                   orch, EXCLUDE_TXT, A2C_TXT, C2A_TXT, moverVars, runVars, counters>>

NextOfLocate == CallLocate
SpecLocate == InitOfLocate /\ [][NextOfLocate]_vars

\* ---- the episodes that follow an in-progress episode ----------------------
\* One series on the server: MaxSeason seasons of MaxEpisode episodes, and the episode
\* window (number_episodes) of the settings up to MaxWindow.
MaxSeason == 2
MaxEpisode == 2
MaxWindow == 3
EpisodeCount == MaxSeason * MaxEpisode

\* /Shows/{id}/Episodes and /Users/{uid}/Items with SortBy ParentIndexNumber,IndexNumber:
\* the episodes of the series in ascending order, P the played ones
EpisodesOf(P) ==
    [k \in 1..EpisodeCount |->
        [Id |-> k, SeasonId |-> ((k - 1) \div MaxEpisode) + 1,
         IndexNumber |-> ((k - 1) % MaxEpisode) + 1, Played |-> k \in P]]

IsUnplayed(e) == ~e.Played

\* fetch_extra_episodes: the episodes behind the position of the item, up to n - 1
fetch_extra_episodes(item, eps, n) ==
    IF n <= 1 THEN << >>
    ELSE LET found == { i \in 1..Len(eps) : /\ eps[i].SeasonId = item.SeasonId
                                            /\ eps[i].IndexNumber = item.IndexNumber }
             start == IF found = {} THEN 0
                      ELSE CHOOSE i \in found : \A j \in found : i <= j
             rest == SubSeq(eps, start + 1, Len(eps))
         IN SubSeq(rest, 1, IF Len(rest) < n - 1 THEN Len(rest) ELSE n - 1)

\* the request of get_next_episodes_for_series: IsPlayed false, Limit limit, ascending
NextEpisodesQuery(eps, limit) ==
    LET unplayed == SelectSeq(eps, IsUnplayed)
    IN SubSeq(unplayed, 1, IF Len(unplayed) < limit THEN Len(unplayed) ELSE limit)

\* get_on_deck_extended for one resume item: the files of the item are seen, the
\* episodes of the request that are not the item are appended as RESUME-NEXT
ResumeNext(item, eps, cfg_num) ==
    LET NotItem(e) == e.Id # item.Id
    IN SelectSeq(NextEpisodesQuery(eps, cfg_num), NotItem)

IdsOf(seq) == [i \in 1..Len(seq) |-> seq[i].Id]

InitOfEpisodes ==
    /\ InitHostWith({}) /\ InitPipe /\ InitRun /\ runs = 0 /\ loads = 0
    /\ tool = "run" /\ exclude_file = {}
    /\ cache = [r \in Rels |-> 0] /\ cacheOther = 0 /\ arrayOther = 0
    /\ probe \in { [NoProbe EXCEPT !.fn = f, !.arg = [item |-> k, played |-> P, n |-> n]] :
                     f \in {"fetch_extra_episodes", "get_next_episodes_for_series"},
                     k \in 1..EpisodeCount, P \in SUBSET (1..EpisodeCount),
                     n \in 1..MaxWindow }
    /\ probe.arg.item \notin probe.arg.played

CallFetchExtraEpisodes ==
    /\ probe.fn = "fetch_extra_episodes" /\ ~probe.done
    /\ LET eps == EpisodesOf(probe.arg.played)
       IN probe' = [probe EXCEPT
                      !.out = IdsOf(fetch_extra_episodes(eps[probe.arg.item], eps, probe.arg.n)),
                      !.done = TRUE]
    /\ UNCHANGED <<cache, array, cacheDirs, arrayDirs, cacheOther, arrayOther, playing, tool,
                   orch, pipeVars, runVars, counters>>

CallGetNextEpisodes ==
    /\ probe.fn = "get_next_episodes_for_series" /\ ~probe.done
    /\ LET eps == EpisodesOf(probe.arg.played)
       IN probe' = [probe EXCEPT
                      !.out = IdsOf(ResumeNext(eps[probe.arg.item], eps, probe.arg.n)),
                      !.done = TRUE]
    /\ UNCHANGED <<cache, array, cacheDirs, arrayDirs, cacheOther, arrayOther, playing, tool,
                   orch, pipeVars, runVars, counters>>

NextOfEpisodes == CallFetchExtraEpisodes \/ CallGetNextEpisodes
SpecEpisodes == InitOfEpisodes /\ [][NextOfEpisodes]_vars

\* ---- the files planned for one video ------------------------------------
\* A folder with the video e1.mkv and other files next to it and below it.
FolderOfVideo == USER_ROOT \o << <<"TV">>, <<"A">> >>
TheVideo == Join(FolderOfVideo, <<"e1", ".mkv">>)
FolderNames == { <<"e1", ".nfo">>, <<"e1", ".srt">>, <<"e1", "-thumb", ".jpg">>,
                 <<"e1", "0", ".mkv">>, <<"e2", ".nfo">> }
FolderFiles ==
    { Join(FolderOfVideo, n) : n \in FolderNames }
    \cup { Join(Join(FolderOfVideo, <<"extras">>), <<"e1", ".nfo">>) }

InitOfFiles ==
    /\ InitHostWith({}) /\ InitPipe /\ InitRun /\ runs = 0 /\ loads = 0
    /\ tool = "run" /\ exclude_file = {}
    /\ cache = [r \in Rels |-> 0] /\ cacheOther = 0 /\ arrayOther = 0
    /\ probe \in { [NoProbe EXCEPT !.fn = f,
                                    !.arg = [type |-> t, video |-> TheVideo,
                                             files |-> F \cup {TheVideo}]] :
                     f \in {"get_files_to_move", "sidecars"},
                     t \in {"Episode", "Movie"}, F \in SUBSET FolderFiles }

\* get_files_to_move for a video that exists
CallGetFilesToMove ==
    /\ probe.fn = "get_files_to_move" /\ ~probe.done
    /\ LET v == probe.arg.video
           dirfiles == { f \in probe.arg.files : Parent(f) = Parent(v) }
           treefiles == { f \in probe.arg.files : StartsWith(f, Parent(v)) }
       IN probe' = [probe EXCEPT !.out = FilesFor(probe.arg.type, v, dirfiles, treefiles),
                                 !.done = TRUE]
    /\ UNCHANGED <<cache, array, cacheDirs, arrayDirs, cacheOther, arrayOther, playing, tool,
                   orch, pipeVars, runVars, counters>>

\* the entry and its sidecars, as they are added to exclude_paths
CallSidecars ==
    /\ probe.fn = "sidecars" /\ ~probe.done
    /\ LET v == probe.arg.video
           dirfiles == { f \in probe.arg.files : Parent(f) = Parent(v) }
       IN probe' = [probe EXCEPT !.out = {v} \cup SidecarsOf(v, dirfiles), !.done = TRUE]
    /\ UNCHANGED <<cache, array, cacheDirs, arrayDirs, cacheOther, arrayOther, playing, tool,
                   orch, pipeVars, runVars, counters>>

NextOfFiles == CallGetFilesToMove \/ CallSidecars
SpecFiles == InitOfFiles /\ [][NextOfFiles]_vars

\* ---- embycache_cleaner.py in add-to-list mode -----------------------------
\* The text of the snapshot file: its lines that end with a newline and the text after
\* the last newline (<< >>: none).  run() writes "\n".join(current_on_deck_paths), so
\* the line written last has no newline; which line that is depends on the set's order.
SnapshotText(paths, last) ==
    IF paths = {} THEN [full |-> {}, tail |-> << >>]
    ELSE [full |-> paths \ {last}, tail |-> last]

\* f.write(f"{path}\n") on the file opened with "a": the text goes behind the last one
AppendLine(t, path) == [full |-> t.full \cup {t.tail \o path}, tail |-> << >>]

\* update_exclude_list: the orphans are appended one by one, first the first one
update_exclude_list(t, first, rest) ==
    [AppendLine(t, first) EXCEPT !.full = @ \cup rest]

\* load_exclude_list: the stripped non-empty lines of the text
load_exclude_list(t) == t.full \cup (IF t.tail = << >> THEN {} ELSE {t.tail})

\* scan_cache_for_orphans: the files below the mapped folders of the cache that are
\* not in the list
ScanTargets ==
    { cache_path \o Tail0(m.h, Len(USER_ROOT)) : m \in { x \in path_mappings : HasMntUser(x.h) } }
scan_cache_for_orphans(c, exclude_list) ==
    { f \in { cache_path \o r : r \in { x \in Rels : c[x] > 0 } } :
        /\ \E t \in ScanTargets : StartsWith(f, t)
        /\ f \notin exclude_list }

InitOfCleaner ==
    /\ InitHostWith({}) /\ InitPipe /\ InitRun /\ runs = 0 /\ loads = 0
    /\ tool = "run"
    /\ probe = [NoProbe EXCEPT !.fn = "cleaner"]

\* EmbyCacheCleaner('add').run() on the snapshot file of the last enact-mode run, and
\* the scan of a second cleaner right after it
CleanerAdd ==
    /\ probe.fn = "cleaner" /\ ~probe.done
    /\ \E last \in exclude_file \cup {<< >>} :
         /\ (exclude_file # {} => last # << >>)
         /\ LET text == SnapshotText(exclude_file, last)
                orphans == scan_cache_for_orphans(cache, load_exclude_list(text))
            IN \E first \in orphans \cup {<< >>} :
                 /\ (orphans # {} => first # << >>)
                 /\ exclude_file' =
                       IF orphans = {} THEN exclude_file
                       ELSE load_exclude_list(
                                update_exclude_list(text, first, orphans \ {first}))
                 /\ probe' = [probe EXCEPT
                                !.arg = [listed |-> exclude_file, orphans |-> orphans],
                                !.out = scan_cache_for_orphans(cache, exclude_file'),
                                !.done = TRUE]
    /\ UNCHANGED <<cache, array, cacheDirs, arrayDirs, cacheOther, arrayOther, playing, tool,
                   orch, pipeVars, origin_file, runLocals, counters>>

NextOfCleaner == CleanerAdd
SpecCleaner == InitOfCleaner /\ [][NextOfCleaner]_vars

(***************************************************************************)
(* Properties                                                              *)
(***************************************************************************)

\* ---- C1 ----------------------------------------------------------------
\* the source of job j is a file before the step and is not one after it
SourceGoes(src) == IsFile(cache, array, src) /\ ~IsFile(cache', array', src)

\* safe_move: the source goes only in the step after the check, with exit code 0 and a
\* destination file of the source's size; a job that fails at rsync or at the check
\* leaves its source in place
SafeMoveDeletesVerified ==
    \A j \in DOMAIN jobs :
        /\ SourceGoes(j.src) =>
             /\ jobs[j].pc = "committing"
             /\ jobs[j].ret = 0
             /\ IsFile(cache, array, DstFile(j))
             /\ SizeAt(cache, array, DstFile(j)) = SizeAt(cache, array, j.src)
        /\ (j \in DOMAIN jobs' /\ jobs[j].pc \in {"copying", "verifying"}
              /\ jobs'[j].pc = "failed") => IsFile(cache', array', j.src)

\* robust_move: the same for the move of the monolithic run
RobustMoveDeletesVerified ==
    /\ (rs # NoMove /\ SourceGoes(rs.src)) =>
         /\ rpc = "verify"
         /\ rs.ret = 0
         /\ IsFile(cache, array, rs.dst)
         /\ SizeAt(cache, array, rs.dst) = SizeAt(cache, array, rs.src)
    /\ (rpc = "verify" /\ ~(/\ rs.ret = 0
                            /\ IsFile(cache, array, rs.dst)
                            /\ SizeAt(cache, array, rs.dst) = SizeAt(cache, array, rs.src)))
         => IsFile(cache', array', rs.src)

\* C1: in safe_move and in robust_move the source file is deleted only after the copy
\* exited with code 0 and the destination exists with the source's size; when the copy
\* exits non-zero, the destination is missing or the sizes differ, the source is still
\* there after the operation.
C1_DeleteOnlyAfterVerifiedCopy ==
    [][SafeMoveDeletesVerified /\ RobustMoveDeletesVerified]_vars

\* a move of the mover that went through: copied, checked, source removed
C1_Witness ==
    \E j \in DOMAIN jobs :
        /\ jobs[j].pc = "done"
        /\ ~IsFile(cache, array, j.src)
        /\ SizeAt(cache, array, DstFile(j)) = jobs[j].size

\* ---- C2 ----------------------------------------------------------------
\* C2: for every job the mover builds from a list entry, the destination file path
\* (destination directory + base name of the source) is not the path of the source,
\* and the two lie on different tiers; also for an entry that starts with neither the
\* array prefix nor the user-share prefix.
C2_SourceAndDestinationDiffer ==
    \A j \in array2cache_jobs \cup cache2array_jobs :
        /\ DstFile(j) # j.src
        /\ ~SameFile(cache, array, j.src, DstFile(j))

\* ---- C3 ----------------------------------------------------------------
\* the orders of the mover, and the orders of run(): the move in progress, the files
\* handed to the host's mover, and the promotions planned so far in this run
MoverSources == { j.src : j \in array2cache_jobs \cup cache2array_jobs }
RunOrders ==
    (IF rs = NoMove THEN {} ELSE {rs.src})
    \cup files_to_move_back
    \cup (DOMAIN origin_data \ DOMAIN origin_file)

\* the files of the library that the sessions, as the mover read them, play
SessionFiles == { r \in Rels : ContainerPath(r) \in SESSION_PATHS }

CandidateCachePaths ==
    { ReplaceMntUser(on_deck_data[i].path, cache_path) : i \in 1..Len(on_deck_data) }

\* C4: a file of the previous snapshot that the predictor still produces as a candidate
\* is never in this run's demote set, whatever the free space of the fast tier is.
C4_CandidateNeverDemoted ==
    \A f \in files_to_move_back :
        f \in previous_exclude_list => f \notin CandidateCachePaths

\* ---- C5 ----------------------------------------------------------------
\* The state a successful enact run leaves behind, met again by the next run with the
\* same candidates and nothing changed in between: the snapshot is the candidates'
\* cache paths, every candidate is on the cache and gone from the array, nothing is
\* playing, and the free space was read as it is.
AfterSuccessfulRun ==
    /\ previous_exclude_list = CandidateCachePaths
    /\ \A f \in CandidateCachePaths :
         OnCache(f) /\ cache[RelOf(f)] > 0 /\ array[RelOf(f)] = 0
    /\ sessions = {}
    /\ stat_free = CacheFree(cache, cacheOther)

\* C5: a run that follows a successful enact run with the same candidates, that run's
\* snapshot and no external change emits no promote and no demote order and writes the
\* same snapshot.
C5_SecondRunIsNoOp ==
    (rpc \in {"mover", "finish"} /\ AfterSuccessfulRun) =>
        /\ files_to_move_back = {}
        /\ stats = NoStats
        /\ current_on_deck_paths = previous_exclude_list

\* ---- C6 ----------------------------------------------------------------
\* a step of a script that was started without --run
PreviewStep ==
    \/ rpc' # "idle" /\ ~run_mode'
    \/ rpc # "idle" /\ ~run_mode
    \/ mpc' # "idle" /\ ~mARGS_run'
    \/ mpc # "idle" /\ ~mARGS_run
    \/ \E ondeck \in OnDeckChoices : Collect(FALSE, ondeck)

\* C6: a run in preview mode writes neither the snapshot nor the origin map, copies,
\* moves or deletes no media file and removes no directory.
C6_PreviewChangesNothing ==
    [][PreviewStep => UNCHANGED <<cache, array, cacheDirs, arrayDirs,
                                  exclude_file, origin_file, EXCLUDE_TXT>>]_vars

\* a preview that has orders to show: run() with a plan, or the mover with jobs
C6_Witness ==
    \/ /\ rpc = "finish" /\ ~run_mode
       /\ files_to_move_back # {}
       /\ stats.to_cache_bytes > 0
    \/ /\ mpc = "planned" /\ ~mARGS_run
       /\ array2cache_jobs # {}
       /\ cache2array_jobs # {}

\* ---- C7 ----------------------------------------------------------------
\* safe_move leaves the queue: with less free space than the source needs no copy is
\* started and nothing is changed; a copy is started only with enough free space
SafeMoveChecksSpace ==
    \A j \in DOMAIN jobs \cap DOMAIN jobs' :
        (jobs[j].pc = "queued" /\ jobs'[j].pc # "queued") =>
            LET size == SizeAt(cache, array, j.src)
                free == free_space(cache, array, cacheOther, arrayOther, j.dst)
            IN /\ free < size => /\ jobs'[j].pc = "failed"
                                 /\ UNCHANGED <<cache, array, cacheDirs, arrayDirs>>
               /\ jobs'[j].pc = "copying" => free >= size

\* robust_move starts its copy only with enough free space on the cache
RobustMoveChecksSpace ==
    (rpc = "phase1" /\ rpc' = "rsync") =>
        free_space(cache, array, cacheOther, arrayOther, Parent(rs'.dst))
            >= SizeAt(cache, array, rs'.src)

\* C7: either executor compares the free bytes of the destination tier with the size of
\* the source before the copy starts; with less free space than that no copy is started,
\* source and destination stay as they are and the operation fails with 0 bytes.
C7_NoCopyWithoutSpace ==
    [][SafeMoveChecksSpace /\ RobustMoveChecksSpace]_vars

\* ---- C8 ----------------------------------------------------------------
\* the free space of the cache as run() read it is at or below the threshold; a read
\* that failed counts as 0 % free
BreakerTripped == stat_free * 100 <= min_free_percent * CacheTotal

\* the promote orders of this run: the copy in progress, the promotions planned so far
\* (both modes enter them into the origin map), the bytes counted as promoted
NoPromoteOrder ==
    /\ rs = NoMove
    /\ DOMAIN origin_data \subseteq DOMAIN origin_file
    /\ stats.to_cache_bytes = 0

\* C8: when the free space of the fast tier at the start of the run is at or below the
\* minimum percentage, or cannot be read, run() emits no promote order at all.
C8_NoPromotionBelowThreshold ==
    (rpc # "idle" /\ BreakerTripped) => NoPromoteOrder

\* a run with the breaker tripped that has a candidate waiting on the array
C8_Witness ==
    /\ rpc = "finish"
    /\ BreakerTripped
    /\ \E i \in 1..Len(on_deck_data) :
         /\ IsFile(cache, array, ReplaceMntUser(on_deck_data[i].path, array_path))
         /\ ~IsFile(cache, array, ReplaceMntUser(on_deck_data[i].path, cache_path))
         /\ Basename(on_deck_data[i].path) \notin sessions

\* ---- C9 ----------------------------------------------------------------
\* phase 2 is over and the host's mover has not yet touched the files
DemoteSetReady ==
    \/ rpc = "mover"
    \/ rpc = "finish" /\ ~(run_mode /\ files_to_move_back # {})

\* the demote set of a run whose phase 1 went over all candidates, which is what the
\* run emits with free space above the threshold
DemoteSetAboveThreshold ==
    MoveBack(cache, array, previous_exclude_list, CandidateCachePaths, sessions)

\* C9: the demote set does not depend on the free space of the fast tier: with the same
\* candidates, previous snapshot, file locations and sessions it is the same whether the
\* free space is above the threshold or not.
C9_DemoteSetIgnoresFreeSpace ==
    DemoteSetReady => files_to_move_back = DemoteSetAboveThreshold

\* ---- C10 ---------------------------------------------------------------
\* run(): a file of the previous snapshot that is no candidate any more and is being
\* played is not in the demote set and is in the snapshot to be written
RunDefersPlaying ==
    rpc \in {"mover", "finish"} =>
        \A f \in previous_exclude_list :
            (IsFile(cache, array, f) /\ f \notin CandidateCachePaths
               /\ Basename(f) \in sessions)
            => (f \notin files_to_move_back /\ f \in current_on_deck_paths)

\* the pipeline: a demote entry the collect script derived from the previous snapshot,
\* whose file the mover finds playing, gets no job and is in the snapshot collect wrote
PipelineDefersPlaying ==
    mpc = "planned" =>
        \A p \in C2A_TXT :
            (StartsWith(p, ARRAY_PREFIX)
               /\ IsFile(cache, array, map_cache_to_array(p).src)
               /\ is_playing(map_cache_to_array(p).src, SESSION_PATHS))
            => /\ map_cache_to_array(p) \notin cache2array_jobs
               /\ ReplacePrefix(p, ARRAY_PREFIX, USER_PREFIX) \in EXCLUDE_TXT

\* C10: a previous-snapshot path that is no longer desired but is being played is not
\* demoted in this run and is kept in the new snapshot, so that a later run demotes it;
\* in the monolithic run and in the collect-then-mover pipeline.
C10_PlayingFileStaysInSnapshot ==
    RunDefersPlaying /\ PipelineDefersPlaying

\* ---- C11 ---------------------------------------------------------------
\* the files that the resume request of some user yields, which carry priority 1
ResumeFiles(users) ==
    UNION { FilesOfItems(cache, array, get_resume_items_safe(users[i])) : i \in 1..Len(users) }

\* C11: in the candidate list a run builds, a path that is an in-progress item of one
\* user and a favourite's next episode of another has the single entry with priority 1,
\* in whatever order the users are asked.
C11_MergedEntryKeepsPriorityOne ==
    [][(rpc = "idle" /\ rpc' # "idle") =>
         \A users \in UserChoices :
            on_deck_data' = get_on_deck_extended(cache, array, users) =>
               \A i \in 1..Len(on_deck_data') :
                  on_deck_data'[i].path \in ResumeFiles(users) => on_deck_data'[i].prio = 1]_vars

\* ---- C12 ---------------------------------------------------------------
\* the directories one level below a tier root (directories are named relative to
\* the root of their tier, which is no element of the sets)
TopLevel(dirs) == { d \in dirs : Len(d) = 1 }

\* C12: no step, and so neither clean_empty_dirs on the array nor
\* cleanup_moved_source_dirs on the cache with its removal of the parent, removes a
\* directory one level below a tier root, empty or not.
C12_ProtectedRootsStay ==
    [][/\ TopLevel(cacheDirs) \subseteq cacheDirs'
       /\ TopLevel(arrayDirs) \subseteq arrayDirs']_vars

\* the host mover emptied a library folder of the cache, whose subdirectories
\* were pruned, and the empty folder is still there
C12_Witness ==
    /\ rpc = "finish"
    /\ run_mode
    /\ files_to_move_back # {}
    /\ \E d \in TopLevel(cacheDirs) : DirEmpty(cache, cacheDirs, d)

\* ---- C13 ----
\* the files of a candidate video's directory whose lower-cased stem begins with the
\* video's and whose lower-cased extension is a sidecar extension
SameStemSidecars(v) ==
    { r \in Rels : /\ Parent(r) = Parent(v)
                   /\ IsFile(cache, array, USER_ROOT \o r)
                   /\ Suffix(Lower(Basename(r))) \in SIDECAR_EXTS
                   /\ StartsWith(Stem(Lower(Basename(r))), Stem(Lower(Basename(v)))) }

OnFastTier(r) == IsFile(cache, array, CACHE_DIR \o r)

\* C13: a collect run with --run puts every candidate video that exists on the host and
\* every same-stem sidecar file of its directory into the new snapshot, and emits a
\* promote order for the video and for each such sidecar that is not on the fast tier.
C13_SidecarsFollowTheVideo ==
    [][(tool = "pipe" /\ mpc = "idle" /\ runs' = runs + 1) =>
         \A ondeck \in OnDeckChoices :
            ( /\ EXCLUDE_TXT' = ExcludePaths(cache, array, Entries(ondeck))
              /\ A2C_TXT' = Array2Cache(cache, array, db', Entries(ondeck)) ) =>
            \A v \in Rels :
               (USER_ROOT \o v \in Entries(ondeck) /\ IsFile(cache, array, USER_ROOT \o v)) =>
                  /\ USER_ROOT \o v \in EXCLUDE_TXT'
                  /\ ~OnFastTier(v) => ARRAY_ROOT \o v \in A2C_TXT'
                  /\ \A sc \in SameStemSidecars(v) :
                        /\ USER_ROOT \o sc \in EXCLUDE_TXT'
                        /\ ~OnFastTier(sc) => ARRAY_ROOT \o sc \in A2C_TXT']_vars

\* the collect run has just listed the first episode and its .nfo, both on the array only
C13_Witness ==
    /\ tool = "pipe" /\ mpc = "idle" /\ runs > 0
    /\ ~OnFastTier(E1A) /\ ~OnFastTier(NFOA)
    /\ array[E1A] > 0 /\ array[NFOA] > 0
    /\ {USER_ROOT \o E1A, USER_ROOT \o NFOA} \subseteq EXCLUDE_TXT
    /\ A2C_TXT = {ARRAY_ROOT \o E1A, ARRAY_ROOT \o NFOA}

\* ---- C14 ----
\* C14: every path of the snapshot that an enact run writes is a file on the fast tier
\* at the write or has a promote order of the run (an entry of origin_data).
C14_SnapshotPathsCachedOrOrdered ==
    [][(rpc = "finish" /\ run_mode /\ exclude_file' = current_on_deck_paths) =>
         \A p \in current_on_deck_paths :
            IsFile(cache, array, p) \/ p \in DOMAIN origin_data]_vars

\* ---- C15 ----
\* C15: the step of an enact run that writes the snapshot comes after the run's
\* migrations: the pipeline has no promote or demote order left to execute when it
\* writes embycache_mover_to_exclude.txt, and embycache_run.py writes its snapshot
\* with both phases and the host mover behind it.
C15_SnapshotWrittenAfterMigrations ==
    [][/\ EXCLUDE_TXT' # EXCLUDE_TXT => (A2C_TXT' = {} /\ C2A_TXT' = {})
       /\ exclude_file' # exclude_file => (rpc = "finish" /\ rs = NoMove)]_vars

\* ---- C16 ----
PromoteCopies == { j \in InProgress : StartsWith(j.dst, CACHE_DIR) }
DemoteCopies  == { j \in InProgress : StartsWith(j.dst, ARRAY_ROOT) }

\* C16: never more promote copies in progress than max_concurrent_moves_cache and never
\* more demote copies in progress than max_concurrent_moves_array.
C16_WorkerLimits ==
    /\ Cardinality(PromoteCopies) <= MAX_CACHE
    /\ Cardinality(DemoteCopies) <= MAX_ARRAY

\* the promote pool is full and a further promote job waits for a worker
C16_Witness ==
    /\ mpc = "a2c"
    /\ Cardinality(PromoteCopies) = MAX_CACHE
    /\ \E j \in DOMAIN jobs : jobs[j].pc = "queued"

\* ---- C17 ----
\* a worker takes up a demote job of the loaded lists
DemoteStart == \E j \in cache2array_jobs : SafeMoveStart(j)

\* C17: the two directions may run concurrently: while a promote copy of an enact
\* mover run is in progress and a demote job of the run has not been taken up, a
\* demote worker can take it up.
C17_DirectionsOverlap ==
    (mARGS_run /\ PromoteCopies # {} /\ cache2array_jobs # {}) => ENABLED DemoteStart

\* C17 as amended: the directions follow one another, no state of a mover run has a
\* promote copy and a demote copy in progress at once.
C17_NeverBothDirections == PromoteCopies = {} \/ DemoteCopies = {}

\* a demote copy is in progress in a run that also had promote jobs
C17_Witness ==
    /\ mARGS_run /\ mpc = "c2a"
    /\ array2cache_jobs # {}
    /\ DemoteCopies # {}

\* ---- C18 ----
\* C18: the session check is made before every copy: no worker starts the copy of a file
\* that the media server reports as playing at that moment, also when the session began
\* after the job lists were built.
C18_NoCopyOfPlayingFile ==
    [][\A j \in DOMAIN jobs :
          (j \in DOMAIN jobs' /\ jobs[j].pc = "queued" /\ jobs'[j].pc = "copying") =>
             ~is_playing(j.src, session_paths(playing))]_vars

\* ---- C19 ----
\* the resume items of the users whose own requests all succeeded: the user's resume
\* request and the episode request of the item's series
ServedItems(users) ==
    UNION { { r \in Rels : /\ users[i].resume_ok
                           /\ \E k \in 1..Len(users[i].resume) : users[i].resume[k] = r
                           /\ r \in users[i].eps_ok
                           /\ in_allowed_library(ContainerPath(r)) } : i \in 1..Len(users) }

\* C19: a failed request for one user or one series costs the candidates of that user
\* or series only: every in-progress item whose own requests succeeded is a candidate
\* of the collect run and so a line of the snapshot it writes.
C19_FailedCallCostsOnlyItsOwnItems ==
    [][(tool = "pipe" /\ mpc = "idle" /\ runs' = runs + 1) =>
         \A users \in FetchChoices :
            ( /\ EXCLUDE_TXT' = ExcludePaths(cache, array, Entries(OnDeckOf(users)))
              /\ A2C_TXT' = Array2Cache(cache, array, db', Entries(OnDeckOf(users))) ) =>
            \A r \in ServedItems(users) :
               container_to_host(ContainerPath(r)) \in EXCLUDE_TXT']_vars

\* ---- C20 ----
\* the path lies below a tier root or the user share and its library segment, the first
\* one below that root, is not a monitored library's
OutsideLibraries(p) ==
    \E root \in {USER_ROOT, CACHE_DIR, ARRAY_ROOT} :
        /\ StartsWith(p, root)
        /\ Len(p) > Len(root)
        /\ \A l \in libraries : p[Len(root) + 1] # << l >>

\* C20: no file outside the monitored libraries is added to the new snapshot or gets a
\* promote order, whatever names occur further down its path.
C20_OnlyMonitoredLibraries ==
    /\ \A p \in current_on_deck_paths \cup EXCLUDE_TXT : ~OutsideLibraries(p)
    /\ rs # NoMove => ~OutsideLibraries(rs.dst)
    /\ \A p \in A2C_TXT : ~OutsideLibraries(p)

\* ---- C21 ----
\* C21: a promote order that failed is emitted again: whenever a run that promotes comes
\* to a candidate that is on the slow tier, is not playing and has no complete copy on
\* the fast tier, it plans the promotion of that file.
C21_FailedPromoteIsOrderedAgain ==
    [][(rpc = "phase1" /\ (rpc' # rpc \/ idx' # idx)) =>
         LET src == on_deck_data[idx].path
             cache_dst == ReplaceMntUser(src, cache_path)
             arr_src == ReplaceMntUser(src, array_path)
         IN ( /\ InLibraries(src) /\ HasMntUser(src)
              /\ IsFile(cache, array, arr_src)
              /\ SizeAt(cache, array, cache_dst) # SizeAt(cache, array, arr_src)
              /\ Basename(src) \notin sessions ) =>
            cache_dst \in DOMAIN origin_data']_vars

\* ---- C22 ----
\* C22: when the source cannot be deleted after a verified copy, so that the file stays
\* on both tiers, the move is reported as an error and its bytes are not part of the
\* run's total of promoted bytes.
C22_FailedDeleteIsSurfaced ==
    [][(/\ rpc = "verify" /\ rpc' # "verify"
        /\ RobustVerified(cache, array, rs)
        /\ IsFile(cache', array', rs.src)) =>
          /\ robust_move_errors(rs, TRUE, FALSE) # {}
          /\ stats'.to_cache_bytes + SizeAt(cache, array, rs.src) <= stats.to_cache_bytes]_vars

\* ---- C23 ----
FirstFailure(o) ==
    IF o.rc1 \notin {NoCode, 0} THEN o.rc1
    ELSE IF o.rc2 \notin {NoCode, 0} THEN o.rc2 ELSE 0

\* C23: the stages run one after the other: the collect script runs only while start.py
\* waits for the collect stage, the mover script only after the collect stage has
\* returned 0, and when start.py ends its exit code is that of the first failed stage.
C23_StagesRunSerially ==
    [][/\ runs' # runs => (orch.pc = "collect" /\ orch.rc1 = NoCode)
       /\ (moverVars' # moverVars \/ loads' # loads) => (orch.pc = "mover" /\ orch.rc1 = 0)
       /\ orch'.pc = "mover" => orch'.rc1 = 0
       /\ (orch'.pc = "done" /\ orch.pc # "done") => orch'.exit = FirstFailure(orch')]_vars

\* start.py has ended with the code of the mover stage, which ran after a collect stage
\* that returned 0
C23_Witness ==
    /\ orch.pc = "done" /\ orch.rc1 = 0 /\ orch.rc2 = 2 /\ orch.exit = 2
    /\ runs > orch.collects /\ loads > orch.movers

PlayingNames == { Basename(r) : r \in playing }

\* C25: the demote set of a run is the previous snapshot's paths that are still on the
\* fast tier, are not in the run's new snapshot and match no active session; in
\* embycache_run.py it is files_to_move_back, in the pipeline the list that the collect
\* script writes to embycache_cache2array.txt.
C25_DemoteSetIsTheDifference ==
    [][/\ (rpc = "phase2" /\ rpc' # "phase2") =>
            files_to_move_back' =
               { p \in previous_exclude_list : /\ IsFile(cache, array, p)
                                                /\ p \notin current_on_deck_paths'
                                                /\ Basename(p) \notin sessions }
       /\ (tool = "pipe" /\ runs' = runs + 1) =>
            \A ondeck \in OnDeckChoices :
               ( /\ A2C_TXT' = Array2Cache(cache, array, db', Entries(ondeck))
                 /\ C2A_TXT' = Cache2Array(cache, array, EXCLUDE_TXT, Entries(ondeck)) ) =>
               LET gone == { p \in EXCLUDE_TXT :
                               /\ IsFile(cache, array, UserToCache(p))
                               /\ p \notin ExcludePaths(cache, array, Entries(ondeck)) }
               IN /\ C2A_TXT' \subseteq
                       { UserToArray(p) : p \in { q \in gone : q \notin
                                                   { USER_ROOT \o r : r \in playing } } }
                  /\ { UserToArray(p) : p \in { q \in gone : Basename(q) \notin PlayingNames } }
                       \subseteq C2A_TXT']_vars

\* ---- C26 ----
\* C26: free space is read, never reserved: whether a worker starts its copy depends on
\* the free bytes of the destination at that moment and the size of its file alone, so
\* the copies in progress do not hold any of it back.
C26_FreeSpaceOnlyRead ==
    [][\A j \in DOMAIN jobs :
          (j \in DOMAIN jobs' /\ jobs[j].pc = "queued" /\ jobs'[j].pc # "queued") =>
             LET size == SizeAt(cache, array, j.src)
                 free == free_space(cache, array, cacheOther, arrayOther, j.dst)
             IN jobs'[j].pc = "copying" <=> (size > 0 /\ free >= size)]_vars

\* two promote copies were started although the fast tier has room for one of them only
C26_Witness ==
    /\ mpc = "a2c"
    /\ \E j, k \in DOMAIN jobs :
          /\ j # k
          /\ jobs[j].pc = "copying" /\ jobs[k].pc = "copying"
          /\ jobs[j].size <= CacheFree(cache, cacheOther)
          /\ jobs[k].size <= CacheFree(cache, cacheOther)
          /\ jobs[j].size + jobs[k].size > CacheFree(cache, cacheOther)

\* ---- C27 ----
\* the library's folder on the host: emby_library_folders[i] stands for nas_library_folders[i]
Alias(L) == IF L = <<"Serien">> THEN <<"TV">> ELSE L

UnderRoot(p, root) == Len(p) > Len(root) /\ \A i \in 1..Len(root) : p[i] = root[i]

\* C27: a server path below the server root comes back as the host root, the alias of
\* its library segment and the remaining segments; a server path that is not below the
\* root (or, for get_host_path, below no mapped server directory) comes back unchanged,
\* also when its text begins like the root's.
C27_PathTranslation ==
    probe.done =>
       LET p == probe.arg
       IN /\ probe.fn = "container_to_host" =>
               IF UnderRoot(p, EMBY_SOURCE)
               THEN probe.out = REAL_SOURCE \o << Alias(p[Len(EMBY_SOURCE) + 1]) >>
                                   \o SubSeq(p, Len(EMBY_SOURCE) + 2, Len(p))
               ELSE p # EMBY_SOURCE => probe.out = p
          /\ probe.fn = "get_host_path" =>
               \/ \E m \in path_mappings :
                     /\ UnderRoot(p, m.d)
                     /\ probe.out = m.h \o SubSeq(p, Len(m.d) + 1, Len(p))
               \/ \E m \in path_mappings : p = m.d
               \/ /\ \A m \in path_mappings : ~UnderRoot(p, m.d)
                  /\ probe.out = p

\* ---- C28 ---------------------------------------------------------------
\* the classified path lies on the cache tier / the array tier itself
DirectCache(host) ==
    LET rel == Tail0(host, Len(REAL_SOURCE)) IN rel \in Rels /\ cache[rel] > 0
DirectArray(host) ==
    LET rel == Tail0(host, Len(REAL_SOURCE)) IN rel \in Rels /\ array[rel] > 0

\* C28: a path that exists below the cache root is classified 'cache'; else one that
\* exists below the array root is 'array'; only when neither exists decides the name
\* index, cache names before array names; 'missing' is given only when neither path
\* exists and the name is in neither index.
C28_ClassificationOrder ==
    (probe.done /\ probe.fn = "loc") =>
        LET host == probe.arg
            loc == probe.out[1][1]
            byIndex == IF Basename(host) \in db.cache_names THEN "cache"
                       ELSE IF Basename(host) \in db.array_names THEN "array"
                       ELSE "missing"
        IN /\ DirectCache(host) => loc = "cache"
           /\ (~DirectCache(host) /\ DirectArray(host)) => loc = "array"
           /\ (~DirectCache(host) /\ ~DirectArray(host)) => loc = byIndex
           /\ loc = "missing" => /\ ~DirectCache(host) /\ ~DirectArray(host)
                                 /\ Basename(host) \notin db.cache_names \cup db.array_names

\* a file on the array is classified 'array' although the index lists its name for the
\* cache only, and a path on no tier was classified by the index
C28_Witness ==
    /\ probe.done /\ probe.fn = "loc"
    /\ DirectArray(probe.arg) /\ ~DirectCache(probe.arg)
    /\ Basename(probe.arg) \in db.cache_names \ db.array_names
    /\ probe.out = << <<"array">> >>

\* ---- C29 ---------------------------------------------------------------
\* the unplayed episodes behind episode k, in ascending order
UnplayedAfter(k, P) == { j \in (k + 1)..EpisodeCount : j \notin P }

\* C29: the follow-on episodes of an in-progress episode with window N are the next
\* N - 1 unplayed episodes of the series in ascending order: at most N - 1 of them,
\* all unplayed, all after the in-progress episode, and none of the unplayed episodes
\* between them is left out.
C29_FollowOnEpisodes ==
    (probe.done /\ probe.fn \in {"fetch_extra_episodes", "get_next_episodes_for_series"}) =>
        LET k == probe.arg.item
            P == probe.arg.played
            out == probe.out
            ids == { out[i] : i \in 1..Len(out) }
        IN /\ Len(out) <= probe.arg.n - 1
           /\ \A i \in 1..Len(out) : out[i] \notin P /\ out[i] > k
           /\ \A i \in 1..(Len(out) - 1) : out[i] < out[i + 1]
           /\ \A j \in UnplayedAfter(k, P) :
                 j \notin ids => /\ Len(out) = probe.arg.n - 1
                                  /\ \A i \in ids : i < j

\* ---- C30 ---------------------------------------------------------------
\* the entry was handled by the loop of phase 1: its path is among the on-deck paths
Handled(e) ==
    IF HasMntUser(e.path) THEN ReplaceMntUser(e.path, cache_path) \in current_on_deck_paths
    ELSE e.path \in current_on_deck_paths

\* C30: the candidate list holds each path at most once and is ordered by priority and,
\* within a priority, by path; the loop of phase 1 follows that order, so once a
\* candidate of priority 2 was handled every candidate of priority 1 of the monitored
\* libraries was handled before (phase 2 adds paths of its own afterwards).
C30_CandidatesOrdered ==
    /\ \A i, j \in 1..Len(on_deck_data) :
          i < j => /\ on_deck_data[i].path # on_deck_data[j].path
                   /\ \/ on_deck_data[i].prio < on_deck_data[j].prio
                      \/ /\ on_deck_data[i].prio = on_deck_data[j].prio
                         /\ PathLess(on_deck_data[i].path, on_deck_data[j].path)
    /\ \A i, j \in 1..Len(on_deck_data) :
          (/\ rpc \in {"phase1", "rsync", "verify", "phase2"}
           /\ on_deck_data[i].prio = 1 /\ on_deck_data[j].prio = 2
           /\ InLibraries(on_deck_data[i].path) /\ InLibraries(on_deck_data[j].path)
           /\ Handled(on_deck_data[j])) => Handled(on_deck_data[i])

\* the loop is inside a list of both priorities: a candidate of priority 1 was handled,
\* one of priority 2 is next
C30_Witness ==
    /\ rpc = "phase1"
    /\ idx > 1
    /\ on_deck_data[idx].prio = 2
    /\ on_deck_data[idx - 1].prio = 1
    /\ Handled(on_deck_data[idx - 1]) /\ ~Handled(on_deck_data[idx])

\* ---- C31 ---------------------------------------------------------------
\* C31: the files planned for a video are the video itself and files of its own
\* folder whose stem is or starts with the stem of the video and whose extension is
\* one of the sidecar extensions; no file of a subfolder, of another extension or of
\* another stem is planned.
C31_OnlyVideoAndSidecars ==
    (probe.done /\ probe.fn \in {"get_files_to_move", "sidecars"}) =>
        \A f \in probe.out :
            \/ f = probe.arg.video
            \/ /\ Parent(f) = Parent(probe.arg.video)
               /\ Suffix(Basename(f)) \in SIDECAR_EXTS
               /\ StartsWith(Stem(Basename(f)), Stem(Basename(probe.arg.video)))

\* ---- C32 ---------------------------------------------------------------
\* the directories a step removes from a tier
GoneFromCache == cacheDirs \ cacheDirs'
GoneFromArray == arrayDirs \ arrayDirs'

\* no file of the tier lies in or below directory d after the step
EmptyAfter(files, d) == \A r \in Rels : files[r] > 0 => ~StartsWith(Parent(r), d)

\* d is the folder, or a folder above the folder, of a file of the demote list
SourceOfDemoted(d) ==
    \E f \in files_to_move_back : OnCache(f) /\ StartsWith(Parent(RelOf(f)), d)

\* the step is the host mover's and its exit code was 0
MoverExitedZero ==
    /\ rpc = "mover"
    /\ \A rc \in {0, 1}, moved \in SUBSET files_to_move_back : ExecuteMover(rc, moved) => rc = 0

\* C32 as stated: a directory is pruned only in an enact-mode run after the host mover
\* exited with 0, and only if it is empty and is the source folder, or a folder above
\* it, of a file of the demote batch of that run.
C32_PruneOnlyAfterDemoteBatch ==
    [][\A d \in GoneFromCache \cup GoneFromArray :
          /\ run_mode
          /\ MoverExitedZero
          /\ SourceOfDemoted(d)
          /\ (d \in GoneFromCache => EmptyAfter(cache', d))
          /\ (d \in GoneFromArray => EmptyAfter(array', d))]_vars

\* C32, amended: directories are pruned only in an enact-mode run. A directory of the
\* cache is removed only by the step of the host mover, after exit code 0, and only if
\* it is empty and is the source folder, or a folder above it, of a file of the demote
\* list; a directory of the array is removed only at the end of the run
\* (clean_empty_dirs, demote batch or not) and only if it is empty.
C32_PruningRules ==
    [][/\ \A d \in GoneFromCache :
             /\ run_mode
             /\ MoverExitedZero
             /\ SourceOfDemoted(d)
             /\ EmptyAfter(cache', d)
       /\ \A d \in GoneFromArray :
             /\ run_mode
             /\ rpc = "finish"
             /\ EmptyAfter(array', d)]_vars

\* the host mover has emptied the folder of a demoted file and the folder was pruned
C32_Witness ==
    /\ rpc = "finish" /\ run_mode
    /\ \E f \in files_to_move_back :
          /\ OnCache(f) /\ Parent(RelOf(f)) \notin cacheDirs
          /\ \A r \in Rels : Parent(r) = Parent(RelOf(f)) => cache[r] = 0

\* ---- C33 ---------------------------------------------------------------
\* the demote job of list entry p has completed: copied, verified, source removed
DemoteSucceeded(p) ==
    /\ map_cache_to_array(p) \in DOMAIN jobs
    /\ jobs[map_cache_to_array(p)].pc = "done"

\* C33: when an enact-mode mover run ends, each list has lost exactly the entries whose
\* move succeeded: a demote entry is removed if and only if its job completed, and a
\* promote entry that is removed is one whose source file is gone from the array (an
\* entry whose copy failed and whose file is still there stays in the list).
C33_ListsLoseTheMovedEntries ==
    [][(mpc = "c2a" /\ mpc' = "idle") =>
          /\ \A p \in C2A_TXT : DemoteSucceeded(p) <=> p \notin C2A_TXT'
          /\ C2A_TXT' \subseteq C2A_TXT
          /\ \A p \in A2C_TXT \ A2C_TXT' : ~IsFile(cache, array, p)
          /\ A2C_TXT' \subseteq A2C_TXT]_vars

\* ---- C34 ---------------------------------------------------------------
\* the jobs of the pool that completed, and the bytes of the files they moved
Completed == { j \in DOMAIN jobs : jobs[j].pc = "done" }
RECURSIVE MovedBytes(_)
MovedBytes(S) ==
    IF S = {} THEN 0
    ELSE LET j == CHOOSE x \in S : TRUE IN jobs[j].size + MovedBytes(S \ {j})

\* the files that lie on the cache alone and whose promotion the run has ordered
PromotedNow == { r \in Rels : /\ cache_path \o r \in DOMAIN origin_data
                              /\ cache[r] = FullSize(r) /\ array[r] = 0 }

\* C34: the summary's file count and byte total of a direction are the number and the
\* summed sizes of the direction's operations that completed in the run: when a pool
\* of the mover has ended, what run_jobs returns counts the completed jobs only, and
\* at the end of an enact-mode run of the engine the promoted bytes are bytes of
\* files that now lie on the cache alone; a failed operation adds nothing.
C34_SummaryCountsCompletedOnly ==
    [][/\ (mpc \in {"a2c", "c2a"} /\ mpc' # mpc) =>
             /\ run_jobs(jobs).cnt = Cardinality(Completed)
             /\ run_jobs(jobs).bytes = MovedBytes(Completed)
       /\ (rpc = "finish" /\ rpc' = "idle" /\ run_mode) =>
             stats.to_cache_bytes <= SumSizes(cache, PromotedNow)]_vars

\* ---- C35 ---------------------------------------------------------------
\* C35: a collect run classifies with an index that is there and fresh, rebuilt from
\* both tiers when the file was absent or older than the freshness window; and
\* whenever a mover run changes a file of a tier the index file has been deleted, so
\* that the next collect run rebuilds it.
C35_IndexRebuiltAfterMoves ==
    [][/\ (tool = "pipe" /\ mpc = "idle" /\ runs' = runs + 1) =>
             /\ db'.fresh
             /\ (~db.fresh => db' = rebuild_index(cache, array))
       /\ (mpc \in {"a2c", "c2a"} /\ (cache' # cache \/ array' # array)) => db = NoDb]_vars

\* ---- C36 ---------------------------------------------------------------
\* the array has room for the file at path p
RoomOnArray(p) == ArrayFree(array', arrayOther') >= SizeAt(cache', array', p)

\* C36, the part of it that finite runs decide: a promoted file of the snapshot is
\* never left on the fast tier while absent from the snapshot, unless a copy failed
\* although the slow tier had room for it: a path of the snapshot that an enact-mode
\* run drops from the snapshot is no file of the cache when the run ends.
C36_DroppedFromSnapshotMeansDemoted ==
    [][(rpc = "finish" /\ rpc' = "idle" /\ run_mode) =>
          \A p \in exclude_file \ exclude_file' :
              (OnCache(p) /\ IsFile(cache', array', p)) => RoomOnArray(p)]_vars

\* ---- C37 ---------------------------------------------------------------
\* C37: after the cleaner ran in add-to-list mode on the snapshot file of an enact-mode
\* run, the set loaded from the file holds every path listed before and every orphan
\* found, each as an entry of its own, and a second scan finds no orphan.
C37_CleanerAddIsComplete ==
    (probe.done /\ probe.fn = "cleaner") =>
        /\ probe.arg.listed \subseteq exclude_file
        /\ probe.arg.orphans \subseteq exclude_file
        /\ probe.out = {}

\* ---- C38 ---------------------------------------------------------------
\* the step that ends a run of the engine
RunEnds == rpc = "finish" /\ rpc' = "idle"

\* the cache paths this run has entered into the origin map and whose file is on the
\* cache: the files the run has promoted
PromotedInRun ==
    { k \in DOMAIN origin_data \ DOMAIN origin_file : IsFile(cache, array, k) }

====
